---- MODULE Spec2Model ----
(***************************************************************************)
(* Model of the inbound-email parser (src/lambda/parser/lambda_function.py)*)
(* of the email-to-webhook relay: S3 event -> MIME parsing -> attachment   *)
(* persistence -> cid: rewrite -> routing key -> webhook POST -> save.     *)
(*                                                                         *)
(* Strings are sequences of one-character strings, so that the string      *)
(* operations of the code (replace, strip, split, len, max by len) are     *)
(* modelled by what they do on characters.                                 *)
(***************************************************************************)
EXTENDS Integers, Sequences, FiniteSets, TLC

----------------------------------------------------------------------------
(* Bounds of the model *)

\* number of child parts of a multipart root
MaxParts == 3
\* number of S3 records of one event
MaxRecords == 2

----------------------------------------------------------------------------
(* Python string operations on sequences of characters *)

Range(s) == {s[i] : i \in DOMAIN s}

\* an optional value (None or a string)
None == [has |-> FALSE, v |-> <<>>]
Some(x) == [has |-> TRUE, v |-> x]

\* old occurs in s at index i
OccursAt(s, old, i) ==
    /\ i >= 1
    /\ i + Len(old) - 1 <= Len(s)
    /\ SubSeq(s, i, i + Len(old) - 1) = old

\* the Python test "old in s"
Contains(s, old) == \E i \in 1..Len(s) : OccursAt(s, old, i)

\* str.replace(old, new) for a non-empty old: every non-overlapping
\* occurrence, found left to right, is replaced
RECURSIVE Replace(_, _, _)
Replace(s, old, new) ==
    IF Len(s) < Len(old) THEN s
    ELSE IF SubSeq(s, 1, Len(old)) = old
         THEN new \o Replace(SubSeq(s, Len(old) + 1, Len(s)), old, new)
         ELSE <<Head(s)>> \o Replace(Tail(s), old, new)

RECURSIVE LStrip(_, _)
LStrip(s, chars) ==
    IF s # <<>> /\ Head(s) \in chars THEN LStrip(Tail(s), chars) ELSE s

RECURSIVE RStrip(_, _)
RStrip(s, chars) ==
    IF s # <<>> /\ s[Len(s)] \in chars
    THEN RStrip(SubSeq(s, 1, Len(s) - 1), chars) ELSE s

\* str.strip(chars)
Strip(s, chars) == RStrip(LStrip(s, chars), chars)

Whitespace == {" ", "\n"}

\* index of the first / last occurrence of the character ch in s, 0 if none
FirstIdx(s, ch) ==
    IF ch \notin Range(s) THEN 0
    ELSE CHOOSE i \in 1..Len(s) : s[i] = ch /\ \A j \in 1..(i - 1) : s[j] # ch

LastIdx(s, ch) ==
    IF ch \notin Range(s) THEN 0
    ELSE CHOOSE i \in 1..Len(s) : s[i] = ch /\ \A j \in (i + 1)..Len(s) : s[j] # ch

\* s.split(ch, 1): <<before, after>> the first ch; <<s>> when there is none
SplitOnce(s, ch) ==
    LET i == FirstIdx(s, ch)
    IN  IF i = 0 THEN <<s>>
        ELSE <<SubSeq(s, 1, i - 1), SubSeq(s, i + 1, Len(s))>>

\* s.split(ch)[-1]
SplitLast(s, ch) == SubSeq(s, LastIdx(s, ch) + 1, Len(s))

\* s.split(ch)[1], defined when s contains ch: the text between the first
\* and the second ch
SplitSecond(s, ch) == SplitOnce(SplitOnce(s, ch)[2], ch)[1]

----------------------------------------------------------------------------
(* MIME parts, as email.message.EmailMessage presents them *)

\* a leaf part: get_content_type(), get_content_disposition(), the
\* Content-ID header, get_filename(), the transfer-decoded payload bytes and
\* whether Python knows the declared charset
Leaf(ct, disp, cid, name, bytes, known) ==
    [multipart |-> FALSE, children |-> <<>>, content_type |-> ct,
     disposition |-> disp, content_id |-> cid, filename |-> name,
     payload |-> bytes, charset_known |-> known]

\* a multipart part: is_multipart() holds, iter_parts() yields children and
\* get_payload(decode=True) is None
Multipart(subs) ==
    [multipart |-> TRUE, children |-> subs, content_type |-> "multipart/mixed",
     disposition |-> "", content_id |-> None, filename |-> None,
     payload |-> <<>>, charset_known |-> TRUE]

TextTypes == {"text/plain", "text/html"}

\* bytes.decode(charset, errors="replace"): an undecodable byte becomes
\* U+FFFD, every other byte its character
DecodeReplace(bytes) ==
    [i \in DOMAIN bytes |-> IF bytes[i] = "xFF" THEN "uFFFD" ELSE bytes[i]]

----------------------------------------------------------------------------
(* extract_email_body *)

NoCandidates == [plain |-> <<>>, html |-> <<>>, raised |-> FALSE]

\* a mutant of WalkLeaf: a part of disposition attachment is not skipped
WalkLeafKeepsAttachments(part, st) ==
    IF part.payload = <<>> THEN st
    ELSE IF ~part.charset_known THEN [st EXCEPT !.raised = TRUE]
    ELSE LET text == Strip(DecodeReplace(part.payload), Whitespace)
         IN  IF part.content_type = "text/plain"
             THEN [st EXCEPT !.plain = Append(@, text)]
             ELSE IF part.content_type = "text/html"
                  THEN [st EXCEPT !.html = Append(@, text)]
                  ELSE st

\* a mutant of WalkLeaf: a part that carries a Content-ID is skipped too
WalkLeafSkipsContentId(part, st) ==
    IF part.disposition = "attachment" \/ part.content_id.has THEN st
    ELSE IF part.payload = <<>> THEN st
    ELSE IF ~part.charset_known THEN [st EXCEPT !.raised = TRUE]
    ELSE LET text == Strip(DecodeReplace(part.payload), Whitespace)
         IN  IF part.content_type = "text/plain"
             THEN [st EXCEPT !.plain = Append(@, text)]
             ELSE IF part.content_type = "text/html"
                  THEN [st EXCEPT !.html = Append(@, text)]
                  ELSE st

\* the body of walk() for a leaf: lines 114-133
WalkLeaf(part, st) ==
    IF part.disposition = "attachment" THEN st
    ELSE IF part.payload = <<>> THEN st
    ELSE IF ~part.charset_known THEN [st EXCEPT !.raised = TRUE]
    ELSE LET text == Strip(DecodeReplace(part.payload), Whitespace)
         IN  IF part.content_type = "text/plain"
             THEN [st EXCEPT !.plain = Append(@, text)]
             ELSE IF part.content_type = "text/html"
                  THEN [st EXCEPT !.html = Append(@, text)]
                  ELSE st

\* a mutant of WalkCatch: the exception of a part is not caught in walk()
WalkNoCatch(st) == st

\* "except Exception as e: print(...)" of walk(): the exception ends there
WalkCatch(st) == [st EXCEPT !.raised = FALSE]

RECURSIVE Walk(_, _)
RECURSIVE WalkSubs(_, _)

\* "for sub in part.iter_parts(): walk(sub)"; an exception ends the loop
WalkSubs(subs, st) ==
    IF subs = <<>> \/ st.raised THEN st
    ELSE WalkSubs(Tail(subs), Walk(Head(subs), st))

\* walk(part): the candidates collected so far are kept in st
Walk(part, st) ==
    WalkCatch(IF part.multipart THEN WalkSubs(part.children, st)
              ELSE WalkLeaf(part, st))

\* a mutant of MaxByLen: on a tie the last candidate wins
RECURSIVE MaxByLenLast(_)
MaxByLenLast(cands) ==
    IF Len(cands) = 1 THEN cands[1]
    ELSE LET best == MaxByLenLast(SubSeq(cands, 1, Len(cands) - 1))
             x == cands[Len(cands)]
         IN  IF Len(x) >= Len(best) THEN x ELSE best

\* max(cands, key=len) of a non-empty list: a later candidate replaces the
\* best so far only when it is strictly longer
RECURSIVE MaxByLen(_)
MaxByLen(cands) ==
    IF Len(cands) = 1 THEN cands[1]
    ELSE LET best == MaxByLen(SubSeq(cands, 1, Len(cands) - 1))
             x == cands[Len(cands)]
         IN  IF Len(x) > Len(best) THEN x ELSE best

\* a mutant of SelectBodies: the html winner is the body only when there
\* is no plain candidate at all
SelectBodiesNoPlainCandidate(plain, html) ==
    LET html_body == IF html # <<>> THEN Some(MaxByLen(html)) ELSE None
    IN  [body |-> IF plain # <<>> THEN MaxByLen(plain)
                  ELSE IF html_body.has THEN html_body.v ELSE <<>>,
         html_body |-> html_body]

\* the selection of lines 139-153 from the two candidate lists: the value
\* returned is (body_text, html_body), html_body None when has is FALSE
SelectBodies(plain, html) ==
    LET body_text == IF plain # <<>> THEN MaxByLen(plain) ELSE <<>>
        html_body == IF html # <<>> THEN Some(MaxByLen(html)) ELSE None
    IN  [body |-> IF body_text = <<>> /\ html_body.has /\ html_body.v # <<>>
                  THEN html_body.v ELSE body_text,
         html_body |-> html_body]

----------------------------------------------------------------------------
(* The rewrite of cid: references, lines 391-394 *)

Cid == <<"c", "i", "d", ":">>

\* one turn of the loop of lines 392-394
RewriteOne(html, att) ==
    IF att.inline /\ att.content_id.has /\ att.content_id.v # <<>>
    THEN Replace(html, Cid \o att.content_id.v, att.public_url)
    ELSE html

RECURSIVE RewriteAll(_, _)
RewriteAll(html, atts) ==
    IF atts = <<>> THEN html
    ELSE RewriteAll(RewriteOne(html, Head(atts)), Tail(atts))

\* lines 391-394: html_body is rewritten only when it is neither None nor ""
RewriteCids(html_body, atts) ==
    IF html_body.has /\ html_body.v # <<>>
    THEN Some(RewriteAll(html_body.v, atts))
    ELSE html_body

----------------------------------------------------------------------------
(* Attachment classification and persistence, lines 338-386 *)

\* content_type.split('/')[-1]
Extension(ct) ==
    CASE ct = "image/png" -> "png"
      [] ct = "application/pdf" -> "pdf"
      [] ct = "text/plain" -> "plain"
      [] ct = "text/html" -> "html"
      [] OTHER -> "mixed"

\* a mutant of IsInlineImage: every part with a Content-ID is inline
IsInlineImageAnyType(part) == part.content_id.has

IsInlineImage(part) == part.content_id.has /\ part.content_type \notin TextTypes
IsAttachment(part) == part.disposition = "attachment"

\* the part reaches put_object: it is not skipped as body text (line 348),
\* it qualifies (line 352) and its payload is not empty (line 355)
WantsPut(part) ==
    /\ ~(part.content_type \in TextTypes /\ ~IsAttachment(part))
    /\ (IsAttachment(part) \/ IsInlineImage(part) \/ part.filename.has)
    /\ part.payload # <<>>

\* part.get("Content-ID", "").strip('<>')
ContentIdOf(part) ==
    IF part.content_id.has THEN Strip(part.content_id.v, {"<", ">"}) ELSE <<>>

\* a mutant of AttachmentName: every name is made of a fresh uuid
AttachmentNameAlwaysFresh(part, u) == <<"attachment_", u, ".bin">>

\* lines 358-367; u is the value of uuid.uuid4().hex
AttachmentName(part, u) ==
    LET given == IF part.filename.has THEN part.filename.v ELSE <<>>
        content_id == ContentIdOf(part)
        named == IF IsInlineImage(part) /\ given = <<>>
                 THEN <<"inline_">>
                      \o (IF content_id # <<>> THEN content_id ELSE <<u>>)
                      \o <<".", Extension(part.content_type)>>
                 ELSE given
    IN  IF named = <<>> THEN <<"attachment_", u, ".bin">> ELSE named

\* lines 369 and 377: the key is a fresh uuid, "/" and the name
S3Url(u, name) == <<"https://bucket.s3.amazonaws.com/", u, "/">> \o name

\* the record appended at lines 380-386
AttachmentRecord(part, u, nu) ==
    [filename |-> AttachmentName(part, nu),
     public_url |-> S3Url(u, AttachmentName(part, nu)),
     content_type |-> part.content_type,
     inline |-> IsInlineImage(part),
     content_id |-> IF IsInlineImage(part) THEN Some(ContentIdOf(part)) ELSE None]

----------------------------------------------------------------------------
(* custom_headers, lines 252-256 *)

\* str.lower() on the letters of the header names modelled
Lower(s) ==
    [i \in DOMAIN s |-> CASE s[i] = "X" -> "x"
                          [] s[i] = "T" -> "t"
                          [] OTHER -> s[i]]

\* header.lower().startswith('x-')
StartsWithXDash(header) ==
    Len(header) >= 2 /\ SubSeq(Lower(header), 1, 2) = <<"x", "-">>

\* a mutant of GetHeader: the value of the last header of that name
GetHeaderLast(headers, name) ==
    headers[CHOOSE i \in DOMAIN headers :
                /\ Lower(headers[i].name) = Lower(name)
                /\ \A j \in DOMAIN headers :
                      Lower(headers[j].name) = Lower(name) => j <= i].value

\* msg[header]: Message.get returns the value of the first header whose
\* name matches, letter case ignored
GetHeader(headers, name) ==
    headers[CHOOSE i \in DOMAIN headers :
                /\ Lower(headers[i].name) = Lower(name)
                /\ \A j \in DOMAIN headers :
                      Lower(headers[j].name) = Lower(name) => i <= j].value

\* the dict of lines 253-256: its keys are the names as they are spelled
CustomHeaders(headers) ==
    [header \in {headers[i].name : i \in {k \in DOMAIN headers :
                                            StartsWithXDash(headers[k].name)}}
        |-> GetHeader(headers, header)]

----------------------------------------------------------------------------
(* Routing key, lines 236-241 and 404-422 *)

\* the text "by <host> with SMTP id <id>" of a Received header, which the
\* first half of the pattern of line 236 matches, kept as one symbol
ByWithSmtpId == "by mx with SMTP id q1"

\* the characters of the class [\w@\.-] among those of the headers modelled
AddrChars ==
    {"a", "b", "c", "d", "e", "f", "g", "h", "i", "j", "k", "l", "m", "n", "o",
     "p", "q", "r", "s", "t", "u", "v", "w", "x", "y", "z", "B", "_", "@",
     ".", "-"}

\* the last index of the longest run of AddrChars of h that starts at j
\* (j - 1 when h[j] is not one of them)
RECURSIVE RunEnd(_, _)
RunEnd(h, j) ==
    IF j <= Len(h) /\ h[j] \in AddrChars THEN RunEnd(h, j + 1) ELSE j - 1

\* re.search(pattern, received_header, re.DOTALL) of line 238: the value of
\* match.group(3), None when there is no match. After the symbol above, the
\* lazy ".*?" stops at the first "for " followed by a non-empty run of
\* [\w@\.-] and a ";"
ForClause(h) ==
    LET p == FirstIdx(h, ByWithSmtpId)
        ok(i) == /\ OccursAt(h, <<"f", "o", "r", " ">>, i)
                 /\ RunEnd(h, i + 4) >= i + 4
                 /\ RunEnd(h, i + 4) < Len(h)
                 /\ h[RunEnd(h, i + 4) + 1] = ";"
        hits == {i \in (p + 1)..Len(h) : ok(i)}
    IN  IF p = 0 \/ hits = {} THEN None
        ELSE LET i == CHOOSE k \in hits : \A m \in hits : k <= m
             IN  Some(SubSeq(h, i + 4, RunEnd(h, i + 4)))

\* line 239: the key of the webhook lookup; split('@')[1] raises IndexError
\* when the matched token has no '@'
KvKey(received_header, recipient) ==
    LET match == IF received_header # <<>> THEN ForClause(received_header)
                 ELSE None
    IN  IF match.has
        THEN IF "@" \in Range(match.v)
             THEN [raised |-> FALSE, v |-> SplitSecond(match.v, "@")]
             ELSE [raised |-> TRUE, v |-> <<>>]
        ELSE IF recipient # <<>>
             THEN [raised |-> FALSE,
                   v |-> Strip(SplitLast(recipient, "@"), {">"})]
             ELSE [raised |-> FALSE, v |-> <<>>]

\* line 241
ReceivedFrom(received_header) ==
    IF received_header # <<>> THEN ForClause(received_header) ELSE None

\* email.utils.getaddresses([recipient])[0][1] for the forms of To modelled
\* here ("addr", "name <addr>", and lists of them separated by ", "): the
\* address of the first entry, without display name and angle brackets
FirstAddress(recipient) ==
    LET first == Strip(SplitOnce(recipient, ",")[1], Whitespace)
    IN  IF "<" \in Range(first)
        THEN Strip(SubSeq(first, FirstIdx(first, "<"), Len(first)), {"<", ">"})
        ELSE first

\* a mutant of RoutingKey: without an address the domain is empty
RoutingKeyEmptyFallback(received_from, recipient, key) ==
    IF received_from.has /\ "@" \in Range(received_from.v)
    THEN [local_part |-> SplitOnce(received_from.v, "@")[1],
          domain |-> SplitOnce(received_from.v, "@")[2]]
    ELSE LET email_addr == IF recipient # <<>> THEN FirstAddress(recipient)
                           ELSE <<>>
         IN  IF email_addr # <<>> /\ "@" \in Range(email_addr)
             THEN [local_part |-> SplitOnce(email_addr, "@")[1],
                   domain |-> SplitOnce(email_addr, "@")[2]]
             ELSE [local_part |-> <<>>, domain |-> <<>>]

\* lines 404-422: (local_part, domain) of the emitted record
RoutingKey(received_from, recipient, key) ==
    IF received_from.has /\ "@" \in Range(received_from.v)
    THEN [local_part |-> SplitOnce(received_from.v, "@")[1],
          domain |-> SplitOnce(received_from.v, "@")[2]]
    ELSE LET email_addr == IF recipient # <<>> THEN FirstAddress(recipient)
                           ELSE <<>>
         IN  IF email_addr # <<>> /\ "@" \in Range(email_addr)
             THEN [local_part |-> SplitOnce(email_addr, "@")[1],
                   domain |-> SplitOnce(email_addr, "@")[2]]
             ELSE [local_part |-> <<>>, domain |-> key]

----------------------------------------------------------------------------
(* The webhook configuration, lines 284-326 *)

\* the URLs stored as webhooks in the configurations modelled
\* a URL is its scheme with "://", one symbol, and the characters after
\* it; a {{field}} token of a template is one symbol too
Schemes == {"http://", "https://"}
Tokens == {"{{local_part}}", "{{domain}}"}

Localhost == <<"l", "o", "c", "a", "l", "h", "o", "s", "t">>

SafeUrl == <<"https://", "h", ".", "i", "o", "/", "i", "n">>
UnsafeUrl == <<"http://">> \o Localhost \o <<"/", "i", "n">>
HostTemplateUrl == <<"http://", "{{local_part}}", "/", "i", "n">>
PathTemplateUrl == <<"https://", "h", ".", "i", "o", "/", "{{local_part}}">>

\* urlparse(url).hostname: the text after the scheme up to the first "/",
\* after its last "@" and before its ":"
Hostname(url) ==
    IF url = <<>> \/ Head(url) \notin Schemes THEN <<>>
    ELSE SplitOnce(SplitLast(SplitOnce(Tail(url), "/")[1], "@"), ":")[1]

\* the hosts of line 60
BlockedHosts ==
    {Localhost, <<"1", "2", "7", ".", "0", ".", "0", ".", "1">>,
     <<"0", ".", "0", ".", "0", ".", "0">>}

\* validate_webhook_url: the scheme is http or https, there is a host and
\* it is not a blocked one; no other host of the model is an IP literal,
\* so ipaddress.ip_address raises ValueError for each of them
ValidateWebhookUrl(url) ==
    /\ url # <<>>
    /\ Head(url) \in Schemes
    /\ Hostname(url) # <<>>
    /\ Hostname(url) \notin BlockedHosts

\* pystache.render(template, data): every {{field}} is replaced by the
\* value of the field (its HTML escaping leaves the characters of the model
\* as they are)
RECURSIVE Render(_, _)
Render(template, data) ==
    IF template = <<>> THEN <<>>
    ELSE (CASE Head(template) = "{{local_part}}" -> data.local_part
            [] Head(template) = "{{domain}}" -> data.domain
            [] OTHER -> <<Head(template)>>)
         \o Render(Tail(template), data)

\* process_template, lines 80-94
ProcessTemplate(template, data) ==
    IF template = <<>> \/ Range(template) \cap Tokens = {} THEN template
    ELSE Render(template, data)

\* domain_configs.find_one({"domain": key}): None when no document matches
FindOne(configs, key) ==
    IF \E c \in configs : c.domain = key
    THEN Some(CHOOSE c \in configs : c.domain = key)
    ELSE [has |-> FALSE, v |-> [domain |-> key, webhook |-> None]]

----------------------------------------------------------------------------
(* The messages of the model *)

TxtHi == <<"h", "i">>
TxtYo == <<"y", "o">>
TxtHey == <<" ", "h", "e", "y", "\n">>
TxtBlank == <<" ">>
TxtLong == <<"z", "z", "z", "z">>
HtmlRefs == Cid \o <<"a", " ">> \o Cid \o <<"a", "b">>
HtmlShort == <<"p">>
TxtCard == <<"c", "a", "r", "d">>
Bytes == <<"xFF", "b">>

PlainHi == Leaf("text/plain", "", None, None, TxtHi, TRUE)
PlainYo == Leaf("text/plain", "inline", None, None, TxtYo, TRUE)
PlainHey == Leaf("text/plain", "", None, None, TxtHey, TRUE)
PlainBlank == Leaf("text/plain", "", None, None, TxtBlank, TRUE)
PlainBadCharset == Leaf("text/plain", "", None, None, TxtLong, FALSE)
HtmlWithRefs == Leaf("text/html", "", None, None, HtmlRefs, TRUE)
HtmlP == Leaf("text/html", "", None, None, HtmlShort, TRUE)
HtmlAttached == Leaf("text/html", "attachment", None, Some(<<"f">>), TxtLong, TRUE)
HtmlEmpty == Leaf("text/html", "", None, None, <<>>, TRUE)
HtmlBadCharset == Leaf("text/html", "", None, None, TxtLong, FALSE)
HtmlWithContentId == Leaf("text/html", "inline", Some(<<"<", "b", ">">>), None, TxtCard, TRUE)
ImageA == Leaf("image/png", "inline", Some(<<"<", "a", ">">>), None, Bytes, TRUE)
ImageAB == Leaf("image/png", "", Some(<<"<", "a", "b", ">">>), Some(<<"g">>), Bytes, TRUE)
PdfF == Leaf("application/pdf", "attachment", None, Some(<<"f">>), Bytes, TRUE)
ImageEmpty == Leaf("image/png", "", None, Some(<<"e">>), <<>>, TRUE)
PdfUnnamed == Leaf("application/pdf", "attachment", None, None, Bytes, TRUE)
PlainAttachedWithContentId ==
    Leaf("text/plain", "attachment", Some(<<"<", "a", ">">>), Some(<<"n">>), TxtHi, TRUE)
NestedAlternative == Multipart(<<PlainHey, HtmlWithRefs>>)
NestedImage == Multipart(<<ImageA>>)
NestedBadCharset == Multipart(<<PlainBadCharset, PlainHi>>)

Leaves ==
    {PlainHi, PlainYo, PlainHey, PlainBlank, PlainBadCharset, HtmlWithRefs,
     HtmlP, HtmlAttached, HtmlEmpty, HtmlBadCharset, HtmlWithContentId, ImageA,
     ImageAB, PdfF, ImageEmpty, PlainAttachedWithContentId}

\* children of messages about body text
TextChildren ==
    {PlainHi, PlainYo, PlainHey, PlainBlank, PlainBadCharset, HtmlWithRefs,
     HtmlP, HtmlAttached, HtmlEmpty, HtmlBadCharset, HtmlWithContentId,
     NestedAlternative, NestedBadCharset}

\* children of messages about attachments
AttachmentChildren ==
    {PlainHi, HtmlWithRefs, ImageA, ImageAB, PdfF, ImageEmpty,
     PlainAttachedWithContentId, NestedImage, NestedAlternative}

SeqsUpTo(S, n) == UNION {[1..k -> S] : k \in 1..n}

Messages ==
    Leaves
    \cup {Multipart(subs) : subs \in SeqsUpTo(TextChildren, MaxParts)}
    \cup {Multipart(subs) : subs \in SeqsUpTo(AttachmentChildren, MaxParts)}

\* the messages used where the headers vary
FewMessages ==
    {PlainHi, Multipart(<<HtmlWithRefs, ImageA, PdfF>>)}

XIo == <<"x", ".", "i", "o">>
YIo == <<"y", ".", "i", "o">>
BAtX == <<"b", "@">> \o XIo
AAtY == <<"a", "@">> \o YIo

\* values of msg.get('To', '')
ToAbsent == <<>>
ToNamed == <<"B", " ", "<">> \o BAtX \o <<">">>
ToList == BAtX \o <<",", " ">> \o AAtY
ToDomainOnly == XIo
ToWord == <<"b">>
Recipients == {ToAbsent, BAtX, ToNamed, ToList, ToDomainOnly, ToWord}

\* values of msg.get('Received', '')
For == <<"f", "o", "r", " ">>
ReceivedAbsent == <<>>
ReceivedFor(tok) == <<"f", "r", "o", "m", " ", ByWithSmtpId, " ">> \o For \o tok \o <<";", " ", "t">>
ReceivedHeaders ==
    {ReceivedAbsent, ReceivedFor(BAtX), ReceivedFor(AAtY),
     ReceivedFor(<<"<">> \o BAtX \o <<">">>), ReceivedFor(<<"p", "m">>),
     ReceivedFor(BAtX \o <<"@">> \o YIo),
     ReceivedFor(Localhost \o <<"@">> \o XIo)}

Config(domain, webhook) == [domain |-> domain, webhook |-> webhook]

\* contents of the collection domain_configs: at most one document for a
\* domain (unique index), and only domains that is_valid_domain accepts;
\* the webhook is any text, as PUT stores the fields of its body unchecked
Databases ==
    {{Config(XIo, Some(SafeUrl)), Config(YIo, Some(SafeUrl))},
     {Config(XIo, Some(SafeUrl))},
     {Config(XIo, Some(UnsafeUrl)), Config(YIo, Some(SafeUrl))},
     {Config(XIo, None), Config(YIo, Some(SafeUrl))},
     {Config(XIo, Some(HostTemplateUrl)), Config(YIo, Some(PathTemplateUrl))},
     {}}

\* the headers of a message other than Received and To, in order
Header(name, value) == [name |-> name, value |-> value]
XTag == <<"X", "-", "T">>
xtag == <<"x", "-", "t">>
XY == <<"X", "Y">>
HeaderLists ==
    {<<>>,
     <<Header(XTag, "one")>>,
     <<Header(XTag, "one"), Header(XY, "no"), Header(XTag, "two")>>,
     <<Header(xtag, "one"), Header(XY, "no"), Header(XTag, "two")>>,
     <<Header(XY, "no"), Header(<<"Y", "-", "X", "-">>, "no")>>,
     <<Header(XTag, "one"), Header(<<"x", "-">>, "two"), Header(XTag, "three")>>}

Record(msg, received, to) ==
    [msg |-> msg, received |-> received, to |-> to, headers |-> <<>>]

\* the records of events with several records
FewRecords ==
    {Record(PlainHi, ReceivedFor(BAtX), BAtX),
     Record(Multipart(<<HtmlWithRefs, ImageA>>), ReceivedAbsent, AAtY),
     Record(PlainHi, ReceivedFor(<<"p", "m">>), BAtX),
     Record(Multipart(<<PdfUnnamed, PdfF>>), ReceivedFor(BAtX), BAtX)}

----------------------------------------------------------------------------
(* lambda_handler as a state machine *)

VARIABLES
    event,           \* event['Records']: the messages of the S3 objects
    domain_configs,  \* the collection domain_configs
    db_available,    \* "db is not None and mongodb_uri"
    idx,             \* the record of the loop of line 217
    pc,              \* the place of the handler in its code
    kv_key,          \* line 239
    webhook_url,     \* lines 285, 294 and 462
    candidates,      \* plain_candidates and html_candidates of line 104
    body,            \* lines 258 and 330
    html_body,       \* lines 259, 330 and 394
    attachments,     \* line 260
    part_i,          \* the part of the loop of line 337
    puts,            \* the calls of s3_client.put_object, in order
    parsed_email,    \* line 424
    response,        \* the outcome of requests.post of line 466
    posts,           \* the webhook requests made, each with the candidates
                     \* that line 330 collected for its record
    saved,           \* the documents inserted into parsed_emails
    save_calls,      \* the calls of save_email_to_mongodb, in order
    result           \* what lambda_handler returned, or that it raised

\* the state of the other handlers of the repository, which lambda_handler
\* of the parser leaves alone
VARIABLES
    deno_bucket,     \* deno_function: the objects of DATABASE_BUCKET_NAME
    deno_projects,   \* the projects created at Deno, with their deployments
    deno_log,        \* the requests answered by the Deno handler
    cf_bucket,       \* cloudflare_worker_function: the objects of the bucket
    cf_workers,      \* the worker scripts that exist at Cloudflare
    cf_proc,         \* the requests in progress: place, request and locals
    cf_calls,        \* the calls made to the Cloudflare API, in order
    cf_log,          \* the requests answered by the Cloudflare handler
    check_configs,   \* check: the collection domain_configs
    check_verified,  \* the domains for which verify_domain was called
    check_log        \* the requests answered by the check handler

parser_vars ==
    <<event, domain_configs, db_available, idx, pc, kv_key, webhook_url,
      candidates, body, html_body, attachments, part_i, puts, parsed_email,
      response, posts, saved, save_calls, result>>
deno_vars == <<deno_bucket, deno_projects, deno_log>>
cf_vars == <<cf_bucket, cf_workers, cf_proc, cf_calls, cf_log>>
check_vars == <<check_configs, check_verified, check_log>>

vars == <<parser_vars, deno_vars, cf_vars, check_vars>>

\* no request has reached the other handlers
DenoIdle == deno_bucket = <<>> /\ deno_projects = <<>> /\ deno_log = <<>>
CfIdle ==
    /\ cf_bucket = <<>>
    /\ cf_workers = {}
    /\ cf_proc = <<>>
    /\ cf_calls = <<>>
    /\ cf_log = <<>>
CheckIdle == check_configs = <<>> /\ check_verified = {} /\ check_log = <<>>

NoEmail ==
    [email_id |-> 0, domain |-> <<>>, local_part |-> <<>>, recipient |-> <<>>,
     custom_headers |-> <<>>, body |-> <<>>, html_body |-> None,
     attachments |-> <<>>]

NoResult == [statusCode |-> 0, raised |-> FALSE]

\* uuid.uuid4().hex of line 369 for the i-th part of the j-th record: a
\* value no other call returns
KeyUuids(j, i) == {"key-uuid-" \o ToString(j) \o "-" \o ToString(i)}
\* uuid.uuid4().hex of lines 364 and 367
NameUuids(j, i) == {"name-uuid-" \o ToString(j) \o "-" \o ToString(i)}

Locals ==
    /\ kv_key = <<>>
    /\ webhook_url = None
    /\ candidates = NoCandidates
    /\ body = <<>>
    /\ html_body = None
    /\ attachments = <<>>
    /\ part_i = 1
    /\ puts = <<>>
    /\ parsed_email = NoEmail
    /\ response = 0
    /\ posts = <<>>
    /\ saved = <<>>
    /\ save_calls = <<>>
    /\ result = NoResult

\* one message of any shape, delivered to a configured domain
InitMime ==
    /\ event \in {<<Record(m, ReceivedFor(BAtX), BAtX)>> : m \in Messages}
    /\ domain_configs = {Config(XIo, Some(SafeUrl))}
    /\ db_available = TRUE

\* one message with any headers, for any configuration
InitRouting ==
    /\ event \in {<<Record(m, r, t)>> :
                    m \in FewMessages, r \in ReceivedHeaders, t \in Recipients}
    /\ domain_configs \in Databases
    /\ db_available \in BOOLEAN

\* events with several records
InitEvents ==
    /\ event \in UNION {[1..k -> FewRecords] : k \in 2..MaxRecords}
    /\ domain_configs \in Databases
    /\ db_available = TRUE

\* one message with any list of headers
InitHeaders ==
    /\ event \in {<<[Record(m, ReceivedFor(BAtX), BAtX) EXCEPT !.headers = h]>> :
                    m \in FewMessages, h \in HeaderLists}
    /\ domain_configs = {Config(XIo, Some(SafeUrl))}
    /\ db_available = TRUE

Init ==
    /\ InitMime \/ InitRouting \/ InitEvents \/ InitHeaders
    /\ idx = 1
    /\ pc = "fetch"
    /\ Locals
    /\ DenoIdle /\ CfIdle /\ CheckIdle

\* no S3 event has reached the parser
ParserIdle ==
    /\ event = <<>>
    /\ domain_configs = {}
    /\ db_available = TRUE
    /\ idx = 1
    /\ pc = "done"
    /\ Locals

record == event[idx]
msg == record.msg

Return(code) ==
    /\ pc' = "done"
    /\ result' = [statusCode |-> code, raised |-> FALSE]

Raise ==
    /\ pc' = "done"
    /\ result' = [statusCode |-> 0, raised |-> TRUE]

\* lines 218-282: the headers of the record are read and kv_key computed
ParseHeaders ==
    /\ pc = "fetch"
    /\ ~KvKey(record.received, record.to).raised
    /\ kv_key' = KvKey(record.received, record.to).v
    /\ webhook_url' = None
    /\ candidates' = NoCandidates
    /\ body' = <<>>
    /\ html_body' = None
    /\ attachments' = <<>>
    /\ part_i' = 1
    /\ pc' = "lookup"
    /\ UNCHANGED <<event, domain_configs, db_available, idx, puts,
                   parsed_email, response, posts, saved,
                   save_calls, result,
                   deno_vars, cf_vars, check_vars>>

\* line 239 raises IndexError, which nothing catches
ParseHeadersRaises ==
    /\ pc = "fetch"
    /\ KvKey(record.received, record.to).raised
    /\ Raise
    /\ UNCHANGED <<event, domain_configs, db_available, idx, kv_key,
                   webhook_url, candidates, body, html_body, attachments,
                   part_i, puts, parsed_email, response, posts, saved,
                   save_calls,
                   deno_vars, cf_vars, check_vars>>

\* lines 309-314
LookupUnavailable ==
    /\ pc = "lookup"
    /\ ~db_available
    /\ Return(500)
    /\ UNCHANGED <<event, domain_configs, db_available, idx, kv_key,
                   webhook_url, candidates, body, html_body, attachments,
                   part_i, puts, parsed_email, response, posts, saved,
                   save_calls,
                   deno_vars, cf_vars, check_vars>>

\* lines 315-326: find_one raises
LookupRaises ==
    /\ pc = "lookup"
    /\ db_available
    /\ Return(500)
    /\ UNCHANGED <<event, domain_configs, db_available, idx, kv_key,
                   webhook_url, candidates, body, html_body, attachments,
                   part_i, puts, parsed_email, response, posts, saved,
                   save_calls,
                   deno_vars, cf_vars, check_vars>>

\* lines 303-308: no document, or a document without 'webhook'
LookupNotFound ==
    /\ pc = "lookup"
    /\ db_available
    /\ LET domain_config == FindOne(domain_configs, kv_key)
       IN  ~(domain_config.has /\ domain_config.v.webhook.has)
    /\ Return(404)
    /\ UNCHANGED <<event, domain_configs, db_available, idx, kv_key,
                   webhook_url, candidates, body, html_body, attachments,
                   part_i, puts, parsed_email, response, posts, saved,
                   save_calls,
                   deno_vars, cf_vars, check_vars>>

\* lines 293-302: the webhook is configured but refused
LookupUnsafe ==
    /\ pc = "lookup"
    /\ db_available
    /\ LET domain_config == FindOne(domain_configs, kv_key)
       IN  /\ domain_config.has /\ domain_config.v.webhook.has
           /\ ~ValidateWebhookUrl(domain_config.v.webhook.v)
           /\ webhook_url' = domain_config.v.webhook
    /\ Return(400)
    /\ UNCHANGED <<event, domain_configs, db_available, idx, kv_key,
                   candidates, body, html_body, attachments,
                   part_i, puts, parsed_email, response, posts, saved,
                   save_calls,
                   deno_vars, cf_vars, check_vars>>

\* lines 293-297: the webhook is configured and accepted
LookupFound ==
    /\ pc = "lookup"
    /\ db_available
    /\ LET domain_config == FindOne(domain_configs, kv_key)
       IN  /\ domain_config.has /\ domain_config.v.webhook.has
           /\ ValidateWebhookUrl(domain_config.v.webhook.v)
           /\ webhook_url' = domain_config.v.webhook
    /\ pc' = "extract"
    /\ UNCHANGED <<event, domain_configs, db_available, idx, kv_key,
                   candidates, body, html_body, attachments,
                   part_i, puts, parsed_email, response, posts, saved,
                   save_calls, result,
                   deno_vars, cf_vars, check_vars>>

\* line 330: extract_email_body(msg); an exception that walk() let through
\* would leave the handler
ExtractBody ==
    /\ pc = "extract"
    /\ LET st == Walk(msg, NoCandidates)
           chosen == SelectBodies(st.plain, st.html)
       IN  /\ candidates' = st
           /\ body' = IF st.raised THEN body ELSE chosen.body
           /\ html_body' = IF st.raised THEN html_body ELSE chosen.html_body
           /\ pc' = IF st.raised THEN "done"
                    ELSE IF msg.multipart THEN "attach" ELSE "route"
           /\ result' = IF st.raised THEN [statusCode |-> 0, raised |-> TRUE]
                        ELSE result
    /\ part_i' = 1
    /\ UNCHANGED <<event, domain_configs, db_available, idx, kv_key,
                   webhook_url, attachments, puts, parsed_email, response,
                   posts, saved,
                   save_calls,
                   deno_vars, cf_vars, check_vars>>

InPartsLoop == pc = "attach" /\ part_i <= Len(msg.children)
part == msg.children[part_i]

\* lines 338-356: the part is body text, does not qualify or is empty
SkipPart ==
    /\ InPartsLoop
    /\ ~WantsPut(part)
    /\ part_i' = part_i + 1
    /\ UNCHANGED <<event, domain_configs, db_available, idx, pc, kv_key,
                   webhook_url, candidates, body, html_body, attachments,
                   puts, parsed_email, response, posts, saved,
                   save_calls, result,
                   deno_vars, cf_vars, check_vars>>

\* lines 358-386: put_object succeeds and the record is appended
PutObject ==
    /\ InPartsLoop
    /\ WantsPut(part)
    /\ \E u \in KeyUuids(idx, part_i), nu \in NameUuids(idx, part_i) :
          /\ attachments' = Append(attachments, AttachmentRecord(part, u, nu))
          /\ puts' = Append(puts, [record |-> idx, part |-> part_i,
                                   url |-> AttachmentRecord(part, u, nu).public_url,
                                   ok |-> TRUE])
    /\ part_i' = part_i + 1
    /\ UNCHANGED <<event, domain_configs, db_available, idx, pc, kv_key,
                   webhook_url, candidates, body, html_body, parsed_email,
                   response, posts, saved,
                   save_calls, result,
                   deno_vars, cf_vars, check_vars>>

\* a mutant of PutObjectFails: the exception of put_object is not caught
PutObjectFailsUncaught ==
    /\ InPartsLoop
    /\ WantsPut(part)
    /\ \E u \in KeyUuids(idx, part_i), nu \in NameUuids(idx, part_i) :
          puts' = Append(puts, [record |-> idx, part |-> part_i,
                                url |-> AttachmentRecord(part, u, nu).public_url,
                                ok |-> FALSE])
    /\ Raise
    /\ UNCHANGED <<event, domain_configs, db_available, idx, kv_key,
                   webhook_url, candidates, body, html_body, attachments,
                   part_i, parsed_email, response, posts, saved,
                   save_calls,
                   deno_vars, cf_vars, check_vars>>

\* a mutant of PutObjectFails: the part whose put failed is tried again
PutObjectFailsRetried ==
    /\ InPartsLoop
    /\ WantsPut(part)
    /\ \A k \in DOMAIN puts : ~(puts[k].record = idx /\ puts[k].part = part_i)
    /\ \E u \in KeyUuids(idx, part_i), nu \in NameUuids(idx, part_i) :
          puts' = Append(puts, [record |-> idx, part |-> part_i,
                                url |-> AttachmentRecord(part, u, nu).public_url,
                                ok |-> FALSE])
    /\ UNCHANGED <<event, domain_configs, db_available, idx, pc, kv_key,
                   webhook_url, candidates, body, html_body, attachments,
                   part_i, parsed_email, response, posts, saved,
                   save_calls, result,
                   deno_vars, cf_vars, check_vars>>

\* lines 370 and 387-388: put_object raises, the exception is printed
PutObjectFails ==
    /\ InPartsLoop
    /\ WantsPut(part)
    /\ \E u \in KeyUuids(idx, part_i), nu \in NameUuids(idx, part_i) :
          puts' = Append(puts, [record |-> idx, part |-> part_i,
                                url |-> AttachmentRecord(part, u, nu).public_url,
                                ok |-> FALSE])
    /\ part_i' = part_i + 1
    /\ UNCHANGED <<event, domain_configs, db_available, idx, pc, kv_key,
                   webhook_url, candidates, body, html_body, attachments,
                   parsed_email, response, posts, saved,
                   save_calls, result,
                   deno_vars, cf_vars, check_vars>>

\* a mutant of RewriteCidReferences: a body that is the html winner is
\* rewritten with it
RewriteCidReferencesAndBody ==
    /\ pc = "attach"
    /\ part_i > Len(msg.children)
    /\ html_body' = RewriteCids(html_body, attachments)
    /\ body' = IF html_body.has /\ body = html_body.v
               THEN RewriteCids(html_body, attachments).v ELSE body
    /\ pc' = "route"
    /\ UNCHANGED <<event, domain_configs, db_available, idx, kv_key,
                   webhook_url, candidates, attachments, part_i, puts,
                   parsed_email, response, posts, saved,
                   save_calls, result,
                   deno_vars, cf_vars, check_vars>>

\* lines 390-394, after the loop over the parts
RewriteCidReferences ==
    /\ pc = "attach"
    /\ part_i > Len(msg.children)
    /\ html_body' = RewriteCids(html_body, attachments)
    /\ pc' = "route"
    /\ UNCHANGED <<event, domain_configs, db_available, idx, kv_key,
                   webhook_url, candidates, body, attachments, part_i, puts,
                   parsed_email, response, posts, saved,
                   save_calls, result,
                   deno_vars, cf_vars, check_vars>>

\* lines 404-443: the routing key and the record to deliver
BuildRecord ==
    /\ pc = "route"
    /\ LET key == RoutingKey(ReceivedFrom(record.received), record.to, kv_key)
       IN  parsed_email' =
               [email_id |-> idx, domain |-> key.domain,
                local_part |-> key.local_part, recipient |-> record.to,
                custom_headers |-> CustomHeaders(record.headers),
                body |-> body, html_body |-> html_body,
                attachments |-> attachments]
    /\ pc' = "post"
    /\ UNCHANGED <<event, domain_configs, db_available, idx, kv_key,
                   webhook_url, candidates, body, html_body, attachments,
                   part_i, puts, response, posts, saved,
                   save_calls, result,
                   deno_vars, cf_vars, check_vars>>

\* a mutant of PostWebhook: the exception of a failed POST is not caught
PostWebhookErrorsEscape ==
    /\ pc = "post"
    /\ LET url == ProcessTemplate(webhook_url.v, parsed_email)
       IN  /\ webhook_url' = Some(url)
           /\ \E code \in IF Hostname(url) = <<>> THEN {0} ELSE {200, 404, 0} :
                 /\ response' = code
                 /\ IF code = 200
                    THEN pc' = "save" /\ UNCHANGED result
                    ELSE Raise
           /\ posts' = Append(posts, [url |-> url, json |-> parsed_email,
                                      candidates |-> candidates])
    /\ UNCHANGED <<event, domain_configs, db_available, idx, kv_key,
                   candidates, body, html_body, attachments,
                   part_i, puts, parsed_email, saved, save_calls,
                   deno_vars, cf_vars, check_vars>>

\* lines 462-472: the template of the URL is processed, then the POST; code
\* is the status of the answer, 0 when none came (timeout, connection
\* error, or a URL without host, which requests refuses to send)
PostWebhook ==
    /\ pc = "post"
    /\ LET url == ProcessTemplate(webhook_url.v, parsed_email)
       IN  /\ webhook_url' = Some(url)
           /\ \E code \in IF Hostname(url) = <<>> THEN {0} ELSE {200, 404, 0} :
                 response' = code
           /\ posts' = Append(posts, [url |-> url, json |-> parsed_email,
                                      candidates |-> candidates])
    /\ pc' = "save"
    /\ UNCHANGED <<event, domain_configs, db_available, idx, kv_key,
                   candidates, body, html_body, attachments,
                   part_i, puts, parsed_email, saved,
                   save_calls, result,
                   deno_vars, cf_vars, check_vars>>

\* the try of lines 465-472 ends in the except of line 481: no answer
\* came, or raise_for_status raised for an error status
PostFailed == response = 0 \/ response >= 400

\* "e.response" as a condition (line 488): there is a response and its
\* __bool__, which is Response.ok, holds: the status is below 400
ResponseIsTruthy == response # 0 /\ response < 400

\* lines 475-480 and 484-489 with save_email_to_mongodb: e.response is
\* falsy for an error status, so the code saved for any failure is 0
SavedDocument ==
    [email_id |-> parsed_email.email_id, domain |-> parsed_email.domain,
     webhook_url |-> webhook_url.v,
     webhook_response |-> IF PostFailed THEN "Webhook error" ELSE "text",
     webhook_status_code |-> IF PostFailed
                             THEN IF ResponseIsTruthy THEN response ELSE 0
                             ELSE response]

\* the call of save_email_to_mongodb of line 475 or 484
SaveCall(inserted) ==
    [email_id |-> parsed_email.email_id, response |-> response,
     document |-> SavedDocument, inserted |-> inserted]

\* line 217: the next record, or the return of line 494
Continue ==
    IF idx < Len(event)
    THEN idx' = idx + 1 /\ pc' = "fetch" /\ UNCHANGED result
    ELSE UNCHANGED idx /\ Return(200)

\* insert_one succeeds
SaveEmail ==
    /\ pc = "save"
    /\ saved' = Append(saved, SavedDocument)
    /\ save_calls' = Append(save_calls, SaveCall(TRUE))
    /\ Continue
    /\ UNCHANGED <<event, domain_configs, db_available, kv_key,
                   webhook_url, candidates, body, html_body, attachments,
                   part_i, puts, parsed_email, response, posts,
                   deno_vars, cf_vars, check_vars>>

\* insert_one raises: lines 210-213 print the error
SaveEmailFails ==
    /\ pc = "save"
    /\ save_calls' = Append(save_calls, SaveCall(FALSE))
    /\ Continue
    /\ UNCHANGED <<event, domain_configs, db_available, kv_key,
                   webhook_url, candidates, body, html_body, attachments,
                   part_i, puts, parsed_email, response, posts, saved,
                   deno_vars, cf_vars, check_vars>>

Next ==
    \/ ParseHeaders
    \/ ParseHeadersRaises
    \/ LookupUnavailable
    \/ LookupRaises
    \/ LookupNotFound
    \/ LookupUnsafe
    \/ LookupFound
    \/ ExtractBody
    \/ SkipPart
    \/ PutObject
    \/ PutObjectFails
    \/ RewriteCidReferences
    \/ BuildRecord
    \/ PostWebhook
    \/ SaveEmail
    \/ SaveEmailFails

Spec == Init /\ [][Next]_vars

----------------------------------------------------------------------------
(* Definitions used to state the properties *)

\* extract_email_body has returned and html_body is not yet rewritten
Extracted == pc = "attach" \/ (pc = "route" /\ ~msg.multipart)

\* the record of the message event[idx] has been built
Emitted == pc \in {"post", "save"}

RECURSIVE ConcatAll(_)
ConcatAll(ss) == IF ss = <<>> THEN <<>> ELSE Head(ss) \o ConcatAll(Tail(ss))

\* the leaves of a MIME tree in depth-first order
RECURSIVE LeavesOf(_)
LeavesOf(p) ==
    IF p.multipart
    THEN ConcatAll([i \in DOMAIN p.children |-> LeavesOf(p.children[i])])
    ELSE <<p>>

\* w is the first of the longest elements of cands
IsFirstLongest(cands, w) ==
    \E i \in DOMAIN cands :
        /\ cands[i] = w
        /\ \A j \in DOMAIN cands : Len(cands[j]) <= Len(w)
        /\ \A j \in 1..(i - 1) : Len(cands[j]) < Len(w)

FirstLongest(cands) ==
    cands[CHOOSE i \in DOMAIN cands :
            /\ \A j \in DOMAIN cands : Len(cands[j]) <= Len(cands[i])
            /\ \A j \in 1..(i - 1) : Len(cands[j]) < Len(cands[i])]

----------------------------------------------------------------------------
(* C1: among the candidates of one tag that extract_email_body collected,  *)
(* the winner is at least as long as every other candidate, and of several *)
(* longest candidates the first in traversal order is chosen. The plain    *)
(* winner is the returned body unless it is empty, the html winner is the  *)
(* returned html_body.                                                     *)
C1_LongestFirstWins ==
    Extracted =>
        /\ candidates.html # <<>> =>
              html_body.has /\ IsFirstLongest(candidates.html, html_body.v)
        /\ (\E i \in DOMAIN candidates.plain : candidates.plain[i] # <<>>) =>
              IsFirstLongest(candidates.plain, body)

\* two different plain candidates of the greatest length, the first chosen
C1_Witness ==
    /\ Extracted
    /\ \E i, j \in DOMAIN candidates.plain :
          /\ i < j
          /\ candidates.plain[i] # candidates.plain[j]
          /\ Len(candidates.plain[i]) = Len(candidates.plain[j])
          /\ body = candidates.plain[i]
          /\ \A k \in DOMAIN candidates.plain :
                Len(candidates.plain[k]) <= Len(body)

----------------------------------------------------------------------------
(* C2 as stated: the body of the record is the plain winner whenever a     *)
(* text/plain candidate was found, the html winner when no plain candidate *)
(* exists and an html candidate does, and the empty string otherwise.      *)
C2_PlainWheneverFound ==
    Emitted =>
        parsed_email.body =
            IF candidates.plain # <<>> THEN FirstLongest(candidates.plain)
            ELSE IF candidates.html # <<>> THEN FirstLongest(candidates.html)
            ELSE <<>>

(* C2 amended: the body of the record is the plain winner when a plain     *)
(* candidate was found and the winner is not empty; otherwise the html     *)
(* winner when an html candidate was found and that winner is not empty;   *)
(* otherwise the empty string.                                             *)
C2_PlainUnlessEmpty ==
    Emitted =>
        parsed_email.body =
            IF candidates.plain # <<>> /\ FirstLongest(candidates.plain) # <<>>
            THEN FirstLongest(candidates.plain)
            ELSE IF candidates.html # <<>> /\ FirstLongest(candidates.html) # <<>>
                 THEN FirstLongest(candidates.html)
                 ELSE <<>>

\* only blank plain candidates and an html candidate: the body is the html
C2_Witness ==
    /\ Emitted
    /\ candidates.plain # <<>>
    /\ FirstLongest(candidates.plain) = <<>>
    /\ candidates.html # <<>>
    /\ parsed_email.body = FirstLongest(candidates.html)
    /\ parsed_email.body # <<>>

----------------------------------------------------------------------------
IsHtmlLeaf(p) == p.content_type = "text/html"

\* a text/html leaf that walk() turns into a candidate
IsHtmlCandidate(p) ==
    /\ p.content_type = "text/html"
    /\ p.disposition # "attachment"
    /\ p.payload # <<>>
    /\ p.charset_known

(* C3 as stated: html_body of the record is None if and only if the MIME   *)
(* tree has no text/html leaf at any depth.                                *)
C3_NoneIffNoHtmlLeaf ==
    Emitted =>
        (~parsed_email.html_body.has <=> SelectSeq(LeavesOf(msg), IsHtmlLeaf) = <<>>)

(* C3 amended: html_body of the record is None if and only if the MIME     *)
(* tree has no text/html leaf, at any depth, whose disposition is not      *)
(* attachment, whose payload is not empty and whose charset is known.      *)
C3_NoneIffNoHtmlCandidate ==
    Emitted =>
        (~parsed_email.html_body.has
            <=> SelectSeq(LeavesOf(msg), IsHtmlCandidate) = <<>>)

\* text/html leaves, none of them a candidate: html_body is None
C3_Witness ==
    /\ Emitted
    /\ SelectSeq(LeavesOf(msg), IsHtmlLeaf) # <<>>
    /\ ~parsed_email.html_body.has

----------------------------------------------------------------------------
\* the html winner before the rewrite of cid: references
PreHtml == FirstLongest(candidates.html)

\* the inline records of the emitted record
InlineRecords ==
    {a \in Range(parsed_email.attachments) :
        a.inline /\ a.content_id.has /\ a.content_id.v # <<>>}

\* the characters of content-ids
IdChars == {"a", "b"}

RECURSIVE IdRunEnd(_, _)
IdRunEnd(h, j) ==
    IF j <= Len(h) /\ h[j] \in IdChars THEN IdRunEnd(h, j + 1) ELSE j - 1

\* the content-ids of the cid: tokens of h
CidTokens(h) ==
    {SubSeq(h, i + Len(Cid), IdRunEnd(h, i + Len(Cid))) :
        i \in {k \in 1..Len(h) : OccursAt(h, Cid, k)}}

(* C4 as stated: for every inline record with content_id X and every       *)
(* html_body that contains cid:X, the html_body of the emitted record      *)
(* contains the record's public_url and no cid:X; checked for records      *)
(* whose content-ids differ from one another.                              *)
C4_EveryReferenceRewritten ==
    (/\ Emitted
     /\ candidates.html # <<>>
     /\ \A a, b \in InlineRecords : a.content_id = b.content_id => a = b)
    => \A a \in InlineRecords :
          Contains(PreHtml, Cid \o a.content_id.v) =>
              /\ Contains(parsed_email.html_body.v, a.public_url)
              /\ ~Contains(parsed_email.html_body.v, Cid \o a.content_id.v)

(* C5 as stated: a cid:Y token of html_body for which no inline record has *)
(* content_id Y is still a token of the html_body of the emitted record,   *)
(* whatever other attachments there are.                                   *)
C5_DanglingReferenceKept ==
    (Emitted /\ candidates.html # <<>>)
    => \A y \in CidTokens(PreHtml) :
          (\A a \in InlineRecords : a.content_id.v # y) =>
              y \in CidTokens(parsed_email.html_body.v)

----------------------------------------------------------------------------
\* the leaf qualifies as an attachment and has a payload
Qualifies(p) ==
    /\ \/ p.disposition = "attachment"
       \/ p.content_id.has /\ p.content_type \notin TextTypes
       \/ /\ p.filename.has
          /\ ~(p.content_type \in TextTypes /\ p.disposition # "attachment")
    /\ p.payload # <<>>

\* what an attachment record says of its part
IntentOf(a) ==
    [content_type |-> a.content_type, inline |-> a.inline,
     content_id |-> a.content_id]

IntentOfLeaf(p) ==
    [content_type |-> p.content_type,
     inline |-> p.content_id.has /\ p.content_type \notin TextTypes,
     content_id |-> IF p.content_id.has /\ p.content_type \notin TextTypes
                    THEN Some(Strip(p.content_id.v, {"<", ">"})) ELSE None]

PutsOfRecord == SelectSeq(puts, LAMBDA c : c.record = idx)
SomePutFailed == \E k \in DOMAIN PutsOfRecord : ~PutsOfRecord[k].ok

(* C6 as stated: when no put fails, the attachments of the record of a     *)
(* multipart message are, in order, those of the qualifying leaves of the  *)
(* whole MIME tree in depth-first order.                                   *)
C6_EveryLeafOfTheTree ==
    (Emitted /\ msg.multipart /\ ~SomePutFailed)
    => LET leaves == SelectSeq(LeavesOf(msg), Qualifies)
       IN  /\ Len(parsed_email.attachments) = Len(leaves)
           /\ \A i \in DOMAIN leaves :
                 IntentOf(parsed_email.attachments[i]) = IntentOfLeaf(leaves[i])

----------------------------------------------------------------------------
\* the put of the i-th part of the record failed
PutFailed(i) ==
    \E k \in DOMAIN PutsOfRecord : PutsOfRecord[k].part = i /\ ~PutsOfRecord[k].ok

\* the parts of the message that reach put_object
PartsPut == SelectSeq([i \in DOMAIN msg.children |-> i],
                      LAMBDA i : WantsPut(msg.children[i]))

\* the record the i-th part gets when its put succeeds
RecordOfPart(i) ==
    AttachmentRecord(msg.children[i],
                     CHOOSE u \in KeyUuids(idx, i) : TRUE,
                     CHOOSE nu \in NameUuids(idx, i) : TRUE)

\* the attachments of the record when no put fails
AllRecords == [k \in DOMAIN PartsPut |-> RecordOfPart(PartsPut[k])]

\* the attachments of the parts whose put did not fail
RemainingRecords ==
    LET kept == SelectSeq(PartsPut, LAMBDA i : ~PutFailed(i))
    IN  [k \in DOMAIN kept |-> RecordOfPart(kept[k])]

\* the body that extract_email_body returns for the candidates
BodyOfCandidates ==
    IF candidates.plain # <<>> /\ FirstLongest(candidates.plain) # <<>>
    THEN FirstLongest(candidates.plain)
    ELSE IF candidates.html # <<>> /\ FirstLongest(candidates.html) # <<>>
         THEN FirstLongest(candidates.html)
         ELSE <<>>

HtmlOfCandidates ==
    IF candidates.html # <<>> THEN Some(PreHtml) ELSE None

\* every record for which a put failed was posted to the webhook
FailedPutsPosted ==
    \A k \in DOMAIN puts :
        ~puts[k].ok =>
            \E n \in DOMAIN posts : posts[n].json.email_id = puts[k].record

(* C7 as stated: when a put fails, the other attachments have their        *)
(* records, and body and html_body are what they are when no put fails.    *)
C7_SameAsWithoutFailure ==
    (Emitted /\ msg.multipart /\ SomePutFailed)
    => /\ parsed_email.attachments = RemainingRecords
       /\ parsed_email.body = BodyOfCandidates
       /\ parsed_email.html_body = RewriteCids(HtmlOfCandidates, AllRecords)

(* C7 amended: when a put fails, that attachment alone is omitted: the     *)
(* attachments are the records of the run without failure less the failed  *)
(* ones, body is the same as without failure, html_body is the html winner *)
(* rewritten with the records that remain (the cid: references to the      *)
(* omitted attachment stay as they are), and the record is posted to the   *)
(* webhook.                                                                *)
C7_OnlyThatAttachmentOmitted ==
    /\ (Emitted /\ msg.multipart /\ SomePutFailed)
       => /\ parsed_email.attachments = RemainingRecords
          /\ parsed_email.body = BodyOfCandidates
          /\ parsed_email.html_body =
                RewriteCids(HtmlOfCandidates, RemainingRecords)
    /\ pc = "done" => FailedPutsPosted

\* the put of an inline image failed, another attachment has its record and
\* the reference to the image is still in html_body
C7_Witness ==
    /\ pc = "save"
    /\ \E i \in DOMAIN msg.children :
          /\ PutFailed(i)
          /\ IsInlineImage(msg.children[i])
          /\ Contains(parsed_email.html_body.v,
                      Cid \o ContentIdOf(msg.children[i]))
    /\ parsed_email.attachments # <<>>
    /\ posts # <<>>

----------------------------------------------------------------------------
IsPlainCandidate(p) ==
    /\ p.content_type = "text/plain"
    /\ p.disposition # "attachment"
    /\ p.payload # <<>>
    /\ p.charset_known

TextsOf(leaves) ==
    [i \in DOMAIN leaves |-> Strip(DecodeReplace(leaves[i].payload), Whitespace)]

\* a leaf whose decoding raises
FailsToDecode(p) ==
    p.disposition # "attachment" /\ p.payload # <<>> /\ ~p.charset_known

(* C8: a part whose decoding fails is skipped alone: the candidates are    *)
(* the texts of all the other text leaves of the tree, in traversal order, *)
(* the body and html_body of the record are chosen among them, and no      *)
(* exception leaves extract_email_body (the handler raises only at line    *)
(* 239).                                                                   *)
C8_DecodeFailureSkipsOnePart ==
    /\ (Extracted \/ Emitted) =>
          /\ candidates.plain = TextsOf(SelectSeq(LeavesOf(msg), IsPlainCandidate))
          /\ candidates.html = TextsOf(SelectSeq(LeavesOf(msg), IsHtmlCandidate))
    /\ Emitted => parsed_email.body = BodyOfCandidates
    /\ result.raised => KvKey(record.received, record.to).raised

\* a part that fails to decode, before a valid part whose text is the body
C8_Witness ==
    /\ Emitted
    /\ \E i, j \in DOMAIN LeavesOf(msg) :
          /\ i < j
          /\ FailsToDecode(LeavesOf(msg)[i])
          /\ IsPlainCandidate(LeavesOf(msg)[j])
          /\ parsed_email.body = TextsOf(LeavesOf(msg))[j]
          /\ parsed_email.body # <<>>

----------------------------------------------------------------------------
\* the routing key as C9 states it
StatedRoutingKey(received, to) ==
    LET for == IF received # <<>> THEN ForClause(received) ELSE None
        first == IF to # <<>> THEN FirstAddress(to) ELSE <<>>
    IN  IF for.has /\ "@" \in Range(for.v)
        THEN [local_part |-> SubSeq(for.v, 1, FirstIdx(for.v, "@") - 1),
              domain |-> SubSeq(for.v, FirstIdx(for.v, "@") + 1, Len(for.v))]
        ELSE IF "@" \in Range(first)
             THEN [local_part |-> SubSeq(first, 1, FirstIdx(first, "@") - 1),
                   domain |-> SubSeq(first, FirstIdx(first, "@") + 1, Len(first))]
             ELSE [local_part |-> <<>>, domain |-> <<>>]

NoAddress(received, to) ==
    StatedRoutingKey(received, to) = [local_part |-> <<>>, domain |-> <<>>]

(* C9 as stated: the routing key is that of the 'for' address of the       *)
(* Received header, otherwise that of the first address of To, and both    *)
(* fields are empty when neither has an address with '@'.                  *)
C9_EmptyWhenNoAddress ==
    Emitted =>
        /\ parsed_email.domain = StatedRoutingKey(record.received, record.to).domain
        /\ parsed_email.local_part =
              StatedRoutingKey(record.received, record.to).local_part

(* C9 amended: the routing key is that of the 'for' address of the         *)
(* Received header, otherwise that of the first address of To; when        *)
(* neither has an address with '@', local_part is empty and domain is the  *)
(* key of the webhook lookup, kv_key: the text of To after its last '@'    *)
(* (all of To when it has none) without '>' at its ends.                   *)
C9_LookupKeyWhenNoAddress ==
    Emitted =>
        IF NoAddress(record.received, record.to)
        THEN /\ parsed_email.local_part = <<>>
             /\ parsed_email.domain = kv_key
             /\ kv_key = Strip(SplitLast(record.to, "@"), {">"})
        ELSE /\ parsed_email.domain =
                    StatedRoutingKey(record.received, record.to).domain
             /\ parsed_email.local_part =
                    StatedRoutingKey(record.received, record.to).local_part

\* a To header without '@' that names a configured domain
C9_Witness ==
    /\ Emitted
    /\ NoAddress(record.received, record.to)
    /\ parsed_email.domain = record.to
    /\ parsed_email.domain # <<>>

(* C10 as stated: no exception leaves lambda_handler from the computation  *)
(* of the routing key, whatever the Received and To headers.               *)
C10_RoutingNeverRaises == ~result.raised

----------------------------------------------------------------------------
\* a text leaf without Content-ID that walk() turns into a candidate
IsCandidateWithoutContentId(p) ==
    /\ IsPlainCandidate(p) \/ IsHtmlCandidate(p)
    /\ ~p.content_id.has

\* the text leaves of the message that carry a Content-ID
TextLeavesWithContentId ==
    {p \in Range(LeavesOf(msg)) :
        p.content_type \in TextTypes /\ p.content_id.has}

(* C11 as stated: a text leaf is a candidate only if its disposition is    *)
(* not attachment and it carries no Content-ID: the candidates are as many *)
(* as the text leaves without Content-ID that are not attachments, and the *)
(* text of a leaf with a Content-ID is neither body nor html_body.         *)
C11_ContentIdNeverContributes ==
    (Extracted \/ Emitted) =>
        /\ Len(candidates.plain) + Len(candidates.html) =
              Len(SelectSeq(LeavesOf(msg), IsCandidateWithoutContentId))
        /\ \A p \in TextLeavesWithContentId :
              (\A q \in Range(LeavesOf(msg)) :
                    q.payload = p.payload => q.content_id.has)
              => /\ body # Strip(DecodeReplace(p.payload), Whitespace)
                 /\ html_body # Some(Strip(DecodeReplace(p.payload), Whitespace))

(* C11 amended: a text leaf is a candidate only if its disposition is not  *)
(* attachment; its Content-ID does not matter. The candidates are as many  *)
(* as the text leaves that are not attachments and have a payload that     *)
(* decodes, and the text of every such leaf that carries a Content-ID is   *)
(* among the candidates of its type.                                       *)
C11_ContentIdDoesNotMatter ==
    (Extracted \/ Emitted) =>
        /\ Len(candidates.plain) =
              Len(SelectSeq(LeavesOf(msg), IsPlainCandidate))
        /\ Len(candidates.html) =
              Len(SelectSeq(LeavesOf(msg), IsHtmlCandidate))
        /\ \A p \in TextLeavesWithContentId :
              /\ IsPlainCandidate(p) =>
                    Strip(DecodeReplace(p.payload), Whitespace)
                        \in Range(candidates.plain)
              /\ IsHtmlCandidate(p) =>
                    Strip(DecodeReplace(p.payload), Whitespace)
                        \in Range(candidates.html)

\* the html_body and the body of the record are the text of a text/html
\* leaf that carries a Content-ID
C11_Witness ==
    /\ Emitted
    /\ \E p \in TextLeavesWithContentId :
          /\ p.disposition # "attachment"
          /\ parsed_email.html_body =
                Some(Strip(DecodeReplace(p.payload), Whitespace))
          /\ parsed_email.body = Strip(DecodeReplace(p.payload), Whitespace)

----------------------------------------------------------------------------
(* C12 as stated: a root that is not multipart is classified as a leaf     *)
(* with no disposition: a text root with a payload that decodes yields a   *)
(* candidate of its type whatever its Content-Disposition, and a root of   *)
(* another type with a filename or a Content-ID and a payload yields one   *)
(* attachment record.                                                      *)
C12_RootClassifiedAsLeaf ==
    (Emitted /\ ~msg.multipart) =>
        /\ (msg.content_type = "text/plain" /\ msg.payload # <<>>
                /\ msg.charset_known)
              => candidates.plain = TextsOf(<<msg>>)
        /\ (msg.content_type = "text/html" /\ msg.payload # <<>>
                /\ msg.charset_known)
              => candidates.html = TextsOf(<<msg>>)
        /\ (msg.content_type \notin TextTypes /\ msg.payload # <<>>
                /\ (msg.filename.has \/ msg.content_id.has))
              => Len(parsed_email.attachments) = 1

----------------------------------------------------------------------------
\* the puts of the record that succeeded: one for each attachment record
OkPuts == SelectSeq(PutsOfRecord, LAMBDA c : c.ok)

(* C13: every attachment record of the emitted record has inline true      *)
(* exactly when its part has a Content-ID header and a content type that   *)
(* is neither text/plain nor text/html, and has a content_id only when     *)
(* inline is true.                                                         *)
C13_InlineIffContentIdAndNotText ==
    (Emitted /\ msg.multipart) =>
        /\ Len(parsed_email.attachments) = Len(OkPuts)
        /\ \A k \in DOMAIN parsed_email.attachments :
              LET a == parsed_email.attachments[k]
                  p == msg.children[OkPuts[k].part]
              IN  /\ a.inline <=>
                        (p.content_id.has /\ p.content_type \notin TextTypes)
                  /\ a.content_id.has => a.inline

\* the record of a text part with a Content-ID, which is not inline, next
\* to the record of an inline image
C13_Witness ==
    /\ Emitted
    /\ msg.multipart
    /\ \E k, n \in DOMAIN parsed_email.attachments :
          /\ msg.children[OkPuts[k].part].content_id.has
          /\ msg.children[OkPuts[k].part].content_type \in TextTypes
          /\ ~parsed_email.attachments[k].inline
          /\ ~parsed_email.attachments[k].content_id.has
          /\ parsed_email.attachments[n].inline
          /\ parsed_email.attachments[n].content_id.has

----------------------------------------------------------------------------
(* C14: put_object is called at most once for a part of a record, a put    *)
(* that failed is not tried again (the loop goes on to the next part), and *)
(* the records appended to attachments stay as they are, public_url        *)
(* included, until the record is emitted with them.                        *)
C14_PutOncePerPart ==
    [][/\ \A k, n \in DOMAIN puts' :
             (puts'[k].record = puts'[n].record /\ puts'[k].part = puts'[n].part)
                => k = n
       /\ puts' # puts =>
             /\ puts' = Append(puts, puts'[Len(puts')])
             /\ puts'[Len(puts')].record = idx
             /\ puts'[Len(puts')].part = part_i
             /\ part_i' = part_i + 1
       /\ pc # "fetch" =>
             \A k \in DOMAIN attachments :
                /\ k \in DOMAIN attachments'
                /\ attachments'[k].public_url = attachments[k].public_url
       /\ pc' = "post" => parsed_email'.attachments = attachments
       /\ pc = "post" => parsed_email' = parsed_email]_vars

\* a put failed, the put of a later part of the same record succeeded and
\* the record was delivered with that attachment
C14_Witness ==
    /\ pc = "done"
    /\ \E k, n \in DOMAIN puts :
          /\ k < n
          /\ puts[k].record = puts[n].record
          /\ ~puts[k].ok
          /\ puts[n].ok
          /\ \E m \in DOMAIN posts :
                /\ posts[m].json.email_id = puts[n].record
                /\ \E a \in Range(posts[m].json.attachments) :
                      a.public_url = puts[n].url

----------------------------------------------------------------------------
\* the places of the headers whose name starts with x-, letter case ignored
XHeaders == {i \in DOMAIN record.headers : StartsWithXDash(record.headers[i].name)}

(* C15 as stated: custom_headers has an entry for every header whose name  *)
(* starts with 'X-', letter case ignored, and for no other header; when    *)
(* the name occurs more than once the value is that of its last            *)
(* occurrence.                                                             *)
C15_LastOccurrenceStored ==
    Emitted =>
        /\ DOMAIN parsed_email.custom_headers =
              {record.headers[i].name : i \in XHeaders}
        /\ \A i \in XHeaders :
              (\A j \in XHeaders :
                    record.headers[j].name = record.headers[i].name => j <= i)
              => parsed_email.custom_headers[record.headers[i].name] =
                    record.headers[i].value

(* C15 amended: custom_headers has an entry for every header whose name    *)
(* starts with 'X-', letter case ignored, under the name as it is spelled, *)
(* and for no other header; the value of an entry is that of the first     *)
(* header of the message with that name, letter case ignored.              *)
C15_FirstOccurrenceStored ==
    Emitted =>
        /\ DOMAIN parsed_email.custom_headers =
              {record.headers[i].name : i \in XHeaders}
        /\ \A i \in XHeaders :
              (\A j \in DOMAIN record.headers :
                    Lower(record.headers[j].name) = Lower(record.headers[i].name)
                        => i <= j)
              => \A k \in XHeaders :
                    Lower(record.headers[k].name) = Lower(record.headers[i].name)
                    => parsed_email.custom_headers[record.headers[k].name] =
                          record.headers[i].value

\* a name that occurs twice with different values, and a header that is
\* not custom: the entry has the value of the first occurrence
C15_Witness ==
    /\ Emitted
    /\ \E i, j \in XHeaders :
          /\ i < j
          /\ record.headers[i].name = record.headers[j].name
          /\ record.headers[i].value # record.headers[j].value
          /\ parsed_email.custom_headers[record.headers[j].name] =
                record.headers[i].value
    /\ \E i \in DOMAIN record.headers : i \notin XHeaders

----------------------------------------------------------------------------
\* the puts of the j-th record that succeeded
OkPutsOf(j) == SelectSeq(puts, LAMBDA c : c.record = j /\ c.ok)

\* the m-th and the n-th request carry two runs on the same raw message,
\* with no put failed in either
SameMessageTwice(m, n) ==
    /\ m # n
    /\ event[posts[m].json.email_id].msg = event[posts[n].json.email_id].msg
    /\ \A k \in DOMAIN puts :
          puts[k].record \in {posts[m].json.email_id, posts[n].json.email_id}
             => puts[k].ok

\* the part of the k-th attachment of the m-th request
PartOfAttachment(m, k) ==
    event[posts[m].json.email_id].msg.children[
        OkPutsOf(posts[m].json.email_id)[k].part]

\* the name of the part comes from the message: its filename, or its
\* Content-ID when it is an inline resource
NameFromMessage(p) ==
    p.filename.has \/ (IsInlineImage(p) /\ ContentIdOf(p) # <<>>)

(* C16 as stated: two runs of the walk and of the classification on the    *)
(* same raw message give the same candidates in the same order and the     *)
(* same attachment intents: same parts in the same order, same filename,   *)
(* content type, inline flag and content_id.                               *)
C16_SameIntentsAndNames ==
    \A m, n \in DOMAIN posts :
        SameMessageTwice(m, n) =>
            /\ posts[m].candidates = posts[n].candidates
            /\ Len(posts[m].json.attachments) = Len(posts[n].json.attachments)
            /\ \A k \in DOMAIN posts[m].json.attachments :
                  /\ PartOfAttachment(m, k) = PartOfAttachment(n, k)
                  /\ IntentOf(posts[m].json.attachments[k]) =
                        IntentOf(posts[n].json.attachments[k])
                  /\ posts[m].json.attachments[k].filename =
                        posts[n].json.attachments[k].filename

(* C16 amended: two runs on the same raw message give the same candidates  *)
(* in the same order and attachment records of the same parts in the same  *)
(* order with the same content type, inline flag and content_id; the       *)
(* filename is the same for a part that has a filename or is an inline     *)
(* resource with a non-empty Content-ID, and differs otherwise, as it      *)
(* holds a fresh random uuid.                                              *)
C16_SameIntentsNamesFromMessage ==
    \A m, n \in DOMAIN posts :
        SameMessageTwice(m, n) =>
            /\ posts[m].candidates = posts[n].candidates
            /\ Len(posts[m].json.attachments) = Len(posts[n].json.attachments)
            /\ \A k \in DOMAIN posts[m].json.attachments :
                  /\ PartOfAttachment(m, k) = PartOfAttachment(n, k)
                  /\ IntentOf(posts[m].json.attachments[k]) =
                        IntentOf(posts[n].json.attachments[k])
                  /\ IF NameFromMessage(PartOfAttachment(m, k))
                     THEN posts[m].json.attachments[k].filename =
                             posts[n].json.attachments[k].filename
                     ELSE posts[m].json.attachments[k].filename #
                             posts[n].json.attachments[k].filename

\* the same message twice, with a part that has a filename and a part that
\* has none: the names of the first are equal, those of the second differ
C16_Witness ==
    /\ pc = "done"
    /\ \E m, n \in DOMAIN posts :
          /\ SameMessageTwice(m, n)
          /\ \E k, i \in DOMAIN posts[m].json.attachments :
                /\ k \in DOMAIN posts[n].json.attachments
                /\ i \in DOMAIN posts[n].json.attachments
                /\ ~NameFromMessage(PartOfAttachment(m, k))
                /\ posts[m].json.attachments[k].filename #
                      posts[n].json.attachments[k].filename
                /\ NameFromMessage(PartOfAttachment(m, i))
                /\ posts[m].json.attachments[i].filename =
                      posts[n].json.attachments[i].filename

----------------------------------------------------------------------------
\* the body is the html winner because there is no plain candidate
FellBackToHtml ==
    /\ Emitted
    /\ candidates.plain = <<>>
    /\ candidates.html # <<>>
    /\ PreHtml # <<>>

(* C17 as stated: when the body falls back to the html winner because      *)
(* there is no plain candidate, the body of the record is the html_body of *)
(* the same record, rewritten.                                             *)
C17_BodyIsRewrittenHtml ==
    FellBackToHtml => parsed_email.body = parsed_email.html_body.v

(* C17 amended: when the body falls back to the html winner because there  *)
(* is no plain candidate, the body of the record is the html winner as it  *)
(* was before the rewrite of the cid: references, and html_body is that    *)
(* text with the references rewritten.                                     *)
C17_BodyIsHtmlBeforeRewrite ==
    FellBackToHtml =>
        /\ parsed_email.body = PreHtml
        /\ parsed_email.html_body =
              RewriteCids(Some(PreHtml), parsed_email.attachments)

\* a reference of the html winner was rewritten in html_body and is still
\* in the body
C17_Witness ==
    /\ FellBackToHtml
    /\ parsed_email.body # parsed_email.html_body.v
    /\ \E a \in InlineRecords :
          /\ Contains(parsed_email.body, Cid \o a.content_id.v)
          /\ Contains(parsed_email.html_body.v, a.public_url)
          /\ ~Contains(parsed_email.body, a.public_url)

----------------------------------------------------------------------------
(* C18 as stated: every POST of lambda_handler goes to a URL that          *)
(* validate_webhook_url accepts, and this is so for the URL requested,     *)
(* after the {{field}} tokens of the configured webhook have been replaced *)
(* by fields of the record.                                                *)
C18_PostOnlyToValidatedUrl ==
    \A k \in DOMAIN posts :
        Hostname(posts[k].url) # <<>> => ValidateWebhookUrl(posts[k].url)

----------------------------------------------------------------------------
(* C19: for every record that was posted (its domain has a webhook that    *)
(* was accepted) save_email_to_mongodb is called exactly once, after the   *)
(* POST attempt of that record and before anything else, whether the POST  *)
(* succeeded, got an error status or no answer; a failed POST does not     *)
(* change the result of the handler, which is statusCode 200 when every    *)
(* record was posted.                                                      *)
C19_SavedOnceAfterPost ==
    /\ \A k, n \in DOMAIN save_calls :
          save_calls[k].email_id = save_calls[n].email_id => k = n
    /\ \A k \in DOMAIN save_calls :
          /\ k \in DOMAIN posts
          /\ posts[k].json.email_id = save_calls[k].email_id
          /\ save_calls[k].document.webhook_url = posts[k].url
    /\ Len(save_calls) = IF pc = "save" THEN Len(posts) - 1 ELSE Len(posts)
    /\ (pc = "done" /\ Len(posts) = Len(event)) =>
          /\ result = [statusCode |-> 200, raised |-> FALSE]
          /\ Len(save_calls) = Len(event)

\* two records, the POST of one got an error status and that of the other
\* no answer: each was saved once and the handler returned 200
C19_Witness ==
    /\ pc = "done"
    /\ result.statusCode = 200
    /\ Len(save_calls) = Len(event)
    /\ \E k, n \in DOMAIN save_calls :
          /\ save_calls[k].response = 404
          /\ save_calls[n].response = 0
          /\ ~save_calls[n].inserted

(* C20 as stated: when the POST fails, the document saved has              *)
(* webhook_status_code equal to the status of the response when one was    *)
(* received, and 0 only when none was received.                            *)
C20_StatusOfFailedPostSaved ==
    \A k \in DOMAIN save_calls :
        (save_calls[k].response = 0 \/ save_calls[k].response >= 400) =>
            save_calls[k].document.webhook_status_code = save_calls[k].response

----------------------------------------------------------------------------
(* C21 as stated: every record of an event is processed: a record whose    *)
(* domain has no webhook configuration, or an unsafe one, does not keep    *)
(* the handler from the records after it, so that a handler that ended     *)
(* with the answer of such a record has reached the last record.           *)
C21_EveryRecordProcessed ==
    (pc = "done" /\ result.statusCode \in {400, 404}) => idx = Len(event)

(* C22 as stated: the domain of the emitted record is the key of the       *)
(* lookup of the webhook configuration, kv_key, whatever the Received and  *)
(* To headers.                                                             *)
C22_DomainIsLookupKey ==
    Emitted => parsed_email.domain = kv_key

----------------------------------------------------------------------------
(* deno_function: lambda_handler and its four request handlers *)

\* the requests of a behaviour of the function and check handlers
MaxRequests == 3

\* the domains of the requests
FnDomains == {"x.io", "y.io"}

\* get_domain_data of a key without object: {}
NoDomainData == [functions |-> None]

\* the answer of a handler and what went before it
DenoAnswer(method, domain, domain_data, external_ok, code, message) ==
    [method |-> method, domain |-> domain,
     had_functions |-> domain_data.functions.has,
     external_ok |-> external_ok, statusCode |-> code, message |-> message]

\* the project that create_deno_project returns: response.json()["id"]
NewProjectId == Len(deno_projects) + 1

\* handle_post_request, lines 148-237. In the branch of a domain without
\* 'functions' the local variable code is read at line 162 before any
\* assignment (it is assigned at line 186, in the other branch): Python
\* raises UnboundLocalError, which the except of line 227 answers with 500
DenoPost(domain, code, env) ==
    /\ Len(deno_log) < MaxRequests
    /\ \E s3_ok, deno_ok, save_ok \in BOOLEAN :
          LET domain_data == deno_bucket[domain]
              function_data ==
                  [domain_data.functions.v EXCEPT ![env] = "deployment"]
          IN  IF ~s3_ok
              THEN /\ deno_log' = Append(deno_log,
                          DenoAnswer("POST", domain, domain_data, FALSE, 500,
                                     "Error"))
                   /\ UNCHANGED <<deno_bucket, deno_projects>>
              ELSE IF ~domain_data.functions.has
              THEN IF ~deno_ok
                   THEN /\ deno_log' = Append(deno_log,
                               DenoAnswer("POST", domain, domain_data, FALSE,
                                          500, "Failed to create project"))
                        /\ UNCHANGED <<deno_bucket, deno_projects>>
                   ELSE /\ deno_projects' =
                               Append(deno_projects,
                                      [id |-> NewProjectId, domain |-> domain,
                                       deployments |-> {}])
                        /\ deno_log' = Append(deno_log,
                               DenoAnswer("POST", domain, domain_data, TRUE,
                                          500, "UnboundLocalError"))
                        /\ UNCHANGED deno_bucket
              ELSE IF code = ""
              THEN /\ deno_log' = Append(deno_log,
                          DenoAnswer("POST", domain, domain_data, TRUE, 400,
                                     "Function code is required"))
                   /\ UNCHANGED <<deno_bucket, deno_projects>>
              ELSE IF env \notin {"dev", "prod"}
              THEN /\ deno_log' = Append(deno_log,
                          DenoAnswer("POST", domain, domain_data, TRUE, 400,
                                     "Invalid environment"))
                   /\ UNCHANGED <<deno_bucket, deno_projects>>
              ELSE IF ~deno_ok
              THEN /\ deno_log' = Append(deno_log,
                          DenoAnswer("POST", domain, domain_data, FALSE, 500,
                                     "Failed to create deployment"))
                   /\ UNCHANGED <<deno_bucket, deno_projects>>
              ELSE IF ~save_ok
              THEN /\ deno_log' = Append(deno_log,
                          DenoAnswer("POST", domain, domain_data, FALSE, 500,
                                     "Error"))
                   /\ UNCHANGED <<deno_bucket, deno_projects>>
              ELSE /\ deno_bucket' =
                          [deno_bucket EXCEPT
                              ![domain].functions = Some(function_data)]
                   /\ deno_log' = Append(deno_log,
                          DenoAnswer("POST", domain, domain_data, TRUE, 200,
                                     "Function environment updated successfully"))
                   /\ UNCHANGED deno_projects
    /\ UNCHANGED <<parser_vars, cf_vars, check_vars>>

\* handle_get_request, lines 239-270
DenoGet(domain) ==
    /\ Len(deno_log) < MaxRequests
    /\ \E s3_ok \in BOOLEAN :
          LET domain_data == deno_bucket[domain]
          IN  deno_log' = Append(deno_log,
                  IF ~s3_ok
                  THEN DenoAnswer("GET", domain, domain_data, FALSE, 500, "Error")
                  ELSE IF ~domain_data.functions.has
                  THEN DenoAnswer("GET", domain, domain_data, TRUE, 404,
                                  "Function not found")
                  ELSE DenoAnswer("GET", domain, domain_data, TRUE, 200,
                                  "functions"))
    /\ UNCHANGED <<deno_bucket, deno_projects>>
    /\ UNCHANGED <<parser_vars, cf_vars, check_vars>>

\* handle_delete_request, lines 272-308
DenoDelete(domain) ==
    /\ Len(deno_log) < MaxRequests
    /\ \E s3_ok, save_ok \in BOOLEAN :
          LET domain_data == deno_bucket[domain]
          IN  IF ~s3_ok \/ (domain_data.functions.has /\ ~save_ok)
              THEN /\ deno_log' = Append(deno_log,
                          DenoAnswer("DELETE", domain, domain_data, FALSE, 500,
                                     "Error"))
                   /\ UNCHANGED deno_bucket
              ELSE IF ~domain_data.functions.has
              THEN /\ deno_log' = Append(deno_log,
                          DenoAnswer("DELETE", domain, domain_data, TRUE, 404,
                                     "Function not found"))
                   /\ UNCHANGED deno_bucket
              ELSE /\ deno_bucket' =
                          [deno_bucket EXCEPT ![domain].functions = None]
                   /\ deno_log' = Append(deno_log,
                          DenoAnswer("DELETE", domain, domain_data, TRUE, 200,
                                     "Function deleted successfully"))
    /\ UNCHANGED deno_projects
    /\ UNCHANGED <<parser_vars, cf_vars, check_vars>>

\* handle_put_request, lines 310-351
DenoPut(domain, enabled) ==
    /\ Len(deno_log) < MaxRequests
    /\ \E s3_ok, save_ok \in BOOLEAN :
          LET domain_data == deno_bucket[domain]
          IN  IF ~s3_ok \/ (domain_data.functions.has /\ ~save_ok)
              THEN /\ deno_log' = Append(deno_log,
                          DenoAnswer("PUT", domain, domain_data, FALSE, 500,
                                     "Error"))
                   /\ UNCHANGED deno_bucket
              ELSE IF ~domain_data.functions.has
              THEN /\ deno_log' = Append(deno_log,
                          DenoAnswer("PUT", domain, domain_data, TRUE, 404,
                                     "Function not found"))
                   /\ UNCHANGED deno_bucket
              ELSE /\ deno_bucket' =
                          [deno_bucket EXCEPT
                              ![domain].functions.v.enabled = enabled]
                   /\ deno_log' = Append(deno_log,
                          DenoAnswer("PUT", domain, domain_data, TRUE, 200,
                                     "Function settings updated successfully"))
    /\ UNCHANGED deno_projects
    /\ UNCHANGED <<parser_vars, cf_vars, check_vars>>

\* the bucket holds no 'functions' record: none was ever stored
DenoInit ==
    /\ deno_bucket = [d \in FnDomains |-> NoDomainData]
    /\ deno_projects = <<>>
    /\ deno_log = <<>>
    /\ ParserIdle /\ CfIdle /\ CheckIdle

\* lambda_handler, lines 353-399
DenoNext ==
    \/ \E d \in FnDomains, code \in {"", "code"}, env \in {"dev", "prod", "test"} :
          DenoPost(d, code, env)
    \/ \E d \in FnDomains : DenoGet(d)
    \/ \E d \in FnDomains : DenoDelete(d)
    \/ \E d \in FnDomains, enabled \in BOOLEAN : DenoPut(d, enabled)

DenoSpec == DenoInit /\ [][DenoNext]_vars

(* C23 as stated: in the Deno handler a POST for a domain whose stored     *)
(* data has no 'functions', all of whose calls to the bucket and to Deno   *)
(* succeed, is answered 201 'Function created successfully' and stores the *)
(* 'functions' record of the domain, so that the GET after it is answered  *)
(* 200.                                                                    *)
C23_PostCreatesFunction ==
    \A k \in DOMAIN deno_log :
        (/\ deno_log[k].method = "POST"
         /\ ~deno_log[k].had_functions
         /\ deno_log[k].external_ok)
        => /\ deno_log[k].statusCode = 201
           /\ \A n \in DOMAIN deno_log :
                 (/\ n = k + 1
                  /\ deno_log[n].method = "GET"
                  /\ deno_log[n].domain = deno_log[k].domain
                  /\ deno_log[n].external_ok)
                 => deno_log[n].statusCode = 200

----------------------------------------------------------------------------
(* cloudflare_worker_function: lambda_handler and its request handlers.    *)
(* Two invocations of the Lambda may run at once: each keeps the           *)
(* domain_data it read in a local variable until it saves it.              *)

\* the concurrent invocations
Procs == {1, 2}

\* the domain of the requests
CfDomains == {"x.io"}

\* the bodies of the POST requests; code "" is a body without code, and
\* enabled is False in a body without it (line 434)
PostBodies ==
    {[code |-> "", enabled |-> FALSE], [code |-> "v1", enabled |-> FALSE],
     [code |-> "v1", enabled |-> TRUE]}

\* an invocation that handles no request
IdleProc ==
    [pc |-> "idle", method |-> "", domain |-> "", code |-> "",
     enabled |-> FALSE, had_functions |-> FALSE, domain_data |-> NoDomainData,
     overlapped |-> FALSE, statusCode |-> 0]

InProgress(p) == cf_proc[p].pc # "idle"

\* the requests received so far
CfStarted == Len(cf_log) + Cardinality({p \in Procs : InProgress(p)})

\* another invocation is at work
Overlaps(p) == \E q \in Procs \ {p} : InProgress(q)

\* int(time.time()) of line 442: the calls made to Cloudflare so far stand for
\* the clock, so that names made at different moments differ
WorkerName(domain) == "fn-" \o domain \o "-" \o ToString(Len(cf_calls))

Call(p, name, worker) == [call |-> name, worker |-> worker]

\* the answer of a handler, with what was stored when it was given
CfAnswer(p, r, code, message, worker_deleted, bucket) ==
    [method |-> r.method, domain |-> r.domain, code |-> r.code,
     enabled |-> r.enabled, had_functions |-> r.had_functions,
     overlapped |-> r.overlapped, statusCode |-> code, message |-> message,
     worker_deleted |-> worker_deleted,
     stored |-> bucket[r.domain].functions]

\* the request as the handler holds it after get_domain_data
Request(p, method, domain, code, enabled) ==
    [pc |-> "call", method |-> method, domain |-> domain, code |-> code,
     enabled |-> enabled, had_functions |-> cf_bucket[domain].functions.has,
     domain_data |-> cf_bucket[domain], overlapped |-> Overlaps(p),
     statusCode |-> 0]

\* the request is answered at once and the invocation ends
AnswerNow(p, r, code, message) ==
    /\ cf_log' = Append(cf_log, CfAnswer(p, r, code, message, FALSE, cf_bucket))
    /\ UNCHANGED <<cf_bucket, cf_workers, cf_proc, cf_calls>>

\* the request goes on; the invocations at work overlap it
GoOn(p, r) ==
    /\ cf_proc' = [q \in Procs |->
                      IF q = p THEN r
                      ELSE IF InProgress(q)
                      THEN [cf_proc[q] EXCEPT !.overlapped = TRUE]
                      ELSE cf_proc[q]]
    /\ UNCHANGED <<cf_bucket, cf_workers, cf_calls, cf_log>>

\* handle_get_request, lines 593-637
CfGet(p, domain) ==
    /\ ~InProgress(p) /\ CfStarted < MaxRequests
    /\ \E s3_ok, cloudflare_ok \in BOOLEAN :
          LET r == Request(p, "GET", domain, "", FALSE)
          IN  IF ~s3_ok THEN AnswerNow(p, r, 500, "Error")
              ELSE IF ~r.had_functions
              THEN AnswerNow(p, r, 404, "Function not found")
              ELSE IF ~cloudflare_ok THEN AnswerNow(p, r, 500, "Error")
              ELSE AnswerNow(p, r, 200, "functions")
    /\ UNCHANGED <<parser_vars, deno_vars, check_vars>>

\* handle_post_request, lines 426-438 and 514-522: get_domain_data, the body
\* and the refusal of an update without code
CfPostBegin(p, domain, code, enabled) ==
    /\ ~InProgress(p) /\ CfStarted < MaxRequests
    /\ \E s3_ok \in BOOLEAN :
          LET r == Request(p, "POST", domain, code, enabled)
          IN  IF ~s3_ok THEN AnswerNow(p, r, 500, "Error")
              ELSE IF r.had_functions /\ code = ""
              THEN AnswerNow(p, r, 400, "Function code is required")
              ELSE GoOn(p, r)
    /\ UNCHANGED <<parser_vars, deno_vars, check_vars>>

\* handle_post_request, lines 438-512 and 523-560: the calls to Cloudflare.
\* No return after create_cloudflare_worker deletes the worker again
CfPostCalls(p) ==
    /\ cf_proc[p].pc = "call" /\ cf_proc[p].method = "POST"
    /\ \E create_ok, update_ok, deploy_ok \in BOOLEAN :
          LET r == cf_proc[p]
              new == ~r.domain_data.functions.has
              worker_name == IF new THEN WorkerName(r.domain)
                             ELSE r.domain_data.functions.v.worker_name
              function_data == [worker_name |-> worker_name,
                                enabled |-> r.enabled, code |-> r.code]
              Fail(calls, workers, message) ==
                  /\ cf_calls' = cf_calls \o calls
                  /\ cf_workers' = workers
                  /\ cf_proc' = [cf_proc EXCEPT ![p] = IdleProc]
                  /\ cf_log' = Append(cf_log,
                         CfAnswer(p, r, 500, message, FALSE, cf_bucket))
          IN  IF new /\ ~create_ok
              THEN Fail(<<Call(p, "create_cloudflare_worker", worker_name)>>,
                        cf_workers, "Failed to create worker")
              ELSE IF ~update_ok
              THEN Fail((IF new
                         THEN <<Call(p, "create_cloudflare_worker", worker_name)>>
                         ELSE <<>>)
                        \o <<Call(p, "update_worker_script", worker_name)>>,
                        IF new THEN cf_workers \cup {worker_name} ELSE cf_workers,
                        "Failed to update worker script")
              ELSE IF ~deploy_ok
              THEN Fail((IF new
                         THEN <<Call(p, "create_cloudflare_worker", worker_name),
                                Call(p, "update_worker_script", worker_name),
                                Call(p, "add_custom_domain", worker_name)>>
                         ELSE <<Call(p, "update_worker_script", worker_name)>>)
                        \o <<Call(p, "create_worker_deployment", worker_name)>>,
                        cf_workers \cup {worker_name},
                        "Failed to create deployment")
              ELSE /\ cf_calls' = cf_calls \o
                         (IF new
                          THEN <<Call(p, "create_cloudflare_worker", worker_name),
                                 Call(p, "update_worker_script", worker_name),
                                 Call(p, "add_custom_domain", worker_name)>>
                          ELSE <<Call(p, "update_worker_script", worker_name)>>)
                         \o <<Call(p, "create_worker_deployment", worker_name)>>
                   /\ cf_workers' = cf_workers \cup {worker_name}
                   /\ cf_proc' = [cf_proc EXCEPT ![p] =
                         [r EXCEPT !.pc = "save",
                                   !.statusCode = IF new THEN 201 ELSE 200,
                                   !.domain_data.functions = Some(function_data)]]
                   /\ UNCHANGED cf_log
    /\ UNCHANGED cf_bucket
    /\ UNCHANGED <<parser_vars, deno_vars, check_vars>>

\* handle_put_request, lines 639-662: get_domain_data and the new setting
CfPutBegin(p, domain, enabled) ==
    /\ ~InProgress(p) /\ CfStarted < MaxRequests
    /\ \E s3_ok \in BOOLEAN :
          LET r == Request(p, "PUT", domain, "", enabled)
          IN  IF ~s3_ok THEN AnswerNow(p, r, 500, "Error")
              ELSE IF ~r.had_functions
              THEN AnswerNow(p, r, 404, "Function not found")
              ELSE GoOn(p, [r EXCEPT !.pc = "save", !.statusCode = 200,
                                      !.domain_data.functions.v.enabled = enabled])
    /\ UNCHANGED <<parser_vars, deno_vars, check_vars>>

\* handle_delete_request, lines 346-365: get_domain_data
CfDeleteBegin(p, domain) ==
    /\ ~InProgress(p) /\ CfStarted < MaxRequests
    /\ \E s3_ok \in BOOLEAN :
          LET r == Request(p, "DELETE", domain, "", FALSE)
          IN  IF ~s3_ok THEN AnswerNow(p, r, 500, "Error")
              ELSE IF ~r.had_functions
              THEN AnswerNow(p, r, 404, "Function not found")
              ELSE GoOn(p, r)
    /\ UNCHANGED <<parser_vars, deno_vars, check_vars>>

\* handle_delete_request, lines 366-389 and 403-415: the routes, the DNS
\* records, then the worker; delete_worker succeeds only on a worker that exists
CfDeleteCalls(p) ==
    /\ cf_proc[p].pc = "call" /\ cf_proc[p].method = "DELETE"
    /\ \E success \in BOOLEAN :
          LET r == cf_proc[p]
              worker_name == r.domain_data.functions.v.worker_name
          IN  /\ success => worker_name \in cf_workers
              /\ cf_calls' = cf_calls \o
                     <<Call(p, "delete_worker_routes", worker_name),
                       Call(p, "delete_dns_records", worker_name),
                       Call(p, "delete_worker", worker_name)>>
              /\ IF success
                 THEN /\ cf_workers' = cf_workers \ {worker_name}
                      /\ cf_proc' = [cf_proc EXCEPT ![p] =
                            [r EXCEPT !.pc = "save", !.statusCode = 200,
                                      !.domain_data.functions = None]]
                      /\ UNCHANGED cf_log
                 ELSE /\ cf_proc' = [cf_proc EXCEPT ![p] = IdleProc]
                      /\ cf_log' = Append(cf_log,
                             CfAnswer(p, r, 500, "Failed to delete function",
                                      FALSE, cf_bucket))
                      /\ UNCHANGED cf_workers
    /\ UNCHANGED cf_bucket
    /\ UNCHANGED <<parser_vars, deno_vars, check_vars>>

\* save_domain_data, lines 37-50, of the data the handler holds, and the
\* return after it; an error of the bucket is answered 500 by the handler
CfSave(p) ==
    /\ cf_proc[p].pc = "save"
    /\ \E save_ok \in BOOLEAN :
          LET r == cf_proc[p]
              saved_bucket == [cf_bucket EXCEPT ![r.domain] = r.domain_data]
          IN  /\ cf_bucket' = IF save_ok THEN saved_bucket ELSE cf_bucket
              /\ cf_log' = Append(cf_log,
                     IF save_ok
                     THEN CfAnswer(p, r, r.statusCode, "OK",
                                   r.method = "DELETE", saved_bucket)
                     ELSE CfAnswer(p, r, 500, "Error",
                                   r.method = "DELETE", cf_bucket))
    /\ cf_proc' = [cf_proc EXCEPT ![p] = IdleProc]
    /\ UNCHANGED <<cf_workers, cf_calls>>
    /\ UNCHANGED <<parser_vars, deno_vars, check_vars>>

CfInit ==
    /\ cf_bucket = [d \in CfDomains |-> NoDomainData]
    /\ cf_workers = {}
    /\ cf_proc = [p \in Procs |-> IdleProc]
    /\ cf_calls = <<>>
    /\ cf_log = <<>>
    /\ ParserIdle /\ DenoIdle /\ CheckIdle

\* lambda_handler, lines 682-733, in each invocation
CfNext ==
    \/ \E p \in Procs, d \in CfDomains : CfGet(p, d)
    \/ \E p \in Procs, d \in CfDomains, b \in PostBodies :
          CfPostBegin(p, d, b.code, b.enabled)
    \/ \E p \in Procs : CfPostCalls(p)
    \/ \E p \in Procs, d \in CfDomains, enabled \in BOOLEAN :
          CfPutBegin(p, d, enabled)
    \/ \E p \in Procs, d \in CfDomains : CfDeleteBegin(p, d)
    \/ \E p \in Procs : CfDeleteCalls(p)
    \/ \E p \in Procs : CfSave(p)

CfSpec == CfInit /\ [][CfNext]_vars

\* the record of a worker is stored for some domain
Recorded(worker_name) ==
    \E d \in CfDomains :
        /\ cf_bucket[d].functions.has
        /\ cf_bucket[d].functions.v.worker_name = worker_name

\* the answers of the requests that no other request overlapped
Alone(k) == ~cf_log[k].overlapped

Succeeded(k) == cf_log[k].statusCode \in {200, 201}

\* the greatest member of a set of indices
Last(S) == CHOOSE k \in S : \A j \in S : j <= k

(* C24 as stated: in the Cloudflare handler a DELETE of a domain with a    *)
(* stored function removes the 'functions' entry exactly when the worker   *)
(* was deleted: then the entry is gone and the answer is 200, otherwise    *)
(* the entry is still stored and the answer is 500; and the deletions of   *)
(* the routes and of the DNS records are attempted, in this order, right   *)
(* before every deletion of a worker.                                      *)
C24_DeleteRemovesIffWorkerDeleted ==
    /\ \A k \in DOMAIN cf_log :
          (cf_log[k].method = "DELETE" /\ cf_log[k].had_functions /\ Alone(k))
          => /\ cf_log[k].worker_deleted <=> ~cf_log[k].stored.has
             /\ cf_log[k].worker_deleted => cf_log[k].statusCode = 200
             /\ ~cf_log[k].worker_deleted => cf_log[k].statusCode = 500
    /\ \A i \in DOMAIN cf_calls :
          cf_calls[i].call = "delete_worker"
          => /\ i > 2
             /\ cf_calls[i - 2].call = "delete_worker_routes"
             /\ cf_calls[i - 1].call = "delete_dns_records"

(* C25 as stated: after any sequence of POST and DELETE requests to the    *)
(* Cloudflare handler, handled one after the other, every worker that was  *)
(* created and not deleted is the worker_name of a stored 'functions'      *)
(* record: a POST that fails after create_cloudflare_worker leaves no      *)
(* worker without record.                                                  *)
C25_WorkersAreRecorded ==
    (/\ \A p \in Procs : ~InProgress(p)
     /\ \A k \in DOMAIN cf_log : Alone(k))
    => \A w \in cf_workers : Recorded(w)

(* C26 as stated: no interleaving of two requests on a domain loses a      *)
(* write. When every request is answered and no function was deleted, the  *)
(* stored code is the code of the last POST that succeeded and the stored  *)
(* 'enabled' is the one of the last PUT or POST that succeeded.            *)
C26_NoLostUpdate ==
    LET posted == {k \in DOMAIN cf_log :
                      cf_log[k].method = "POST" /\ Succeeded(k)}
        set == {k \in DOMAIN cf_log :
                   cf_log[k].method \in {"POST", "PUT"} /\ Succeeded(k)}
        deleted == {k \in DOMAIN cf_log : cf_log[k].worker_deleted}
    IN  \A d \in CfDomains :
          (/\ \A p \in Procs : ~InProgress(p)
           /\ posted # {} /\ deleted = {})
          => /\ cf_bucket[d].functions.has
             /\ cf_bucket[d].functions.v.code = cf_log[Last(posted)].code
             /\ cf_bucket[d].functions.v.enabled = cf_log[Last(set)].enabled

----------------------------------------------------------------------------
(* check: lambda_handler, the registration of the domains.                 *)
(* check_configs is the collection domain_configs, check_verified the      *)
(* identities that SES holds.                                              *)

\* the domains of the requests, as their labels; <<>> is no domain
CheckDomains == {<<>>, <<"x", "io">>, <<"-x", "io">>}

\* the labels that [a-zA-Z0-9](?:[a-zA-Z0-9-]{0,61}[a-zA-Z0-9])? matches
DomainLabels == {"x", "io"}

\* the labels that [a-zA-Z]{2,} matches
TopLevelLabels == {"io"}

\* is_valid_domain, lines 147-152
is_valid_domain(domain) ==
    /\ Len(domain) >= 2
    /\ \A i \in 1..(Len(domain) - 1) : domain[i] \in DomainLabels
    /\ domain[Len(domain)] \in TopLevelLabels

\* the webhooks of the requests, as scheme and rest; <<>> is no webhook
CheckWebhooks ==
    {<<>>, <<"http://", "a.io/in">>, <<"https://", "b.io/in">>,
     <<"ftp://", "a.io/in">>}

\* the domains of the PUT, DELETE and GET requests, which are not validated
PathDomains == {<<>>, <<"x", "io">>}

\* the webhooks of the PUT requests, which are not validated
PutWebhooks == {<<"https://", "b.io/in">>, <<"ftp://", "a.io/in">>}

\* is_valid_webhook, lines 154-157
is_valid_webhook(webhook) ==
    /\ Len(webhook) = 2
    /\ webhook[1] \in {"http://", "https://"}
    /\ webhook[2] # ""

\* find_one({"domain": domain}) finds a document
Registered(configs, domain) ==
    \E i \in DOMAIN configs : configs[i].domain = domain

\* insert_one on the collection without its unique index
InsertOneWithoutIndex(configs, doc) ==
    [duplicate |-> FALSE, configs |-> Append(configs, doc)]

\* insert_one, line 619, on the collection with the unique index on 'domain'
\* of line 35: DuplicateKeyError for a domain that has a document
InsertOne(configs, doc) ==
    IF Registered(configs, doc.domain)
    THEN [duplicate |-> TRUE, configs |-> configs]
    ELSE [duplicate |-> FALSE, configs |-> Append(configs, doc)]

\* update_one({"domain": domain}, {"$set": {field: value}}): the first match
UpdateOne(configs, domain, field, value) ==
    IF Registered(configs, domain)
    THEN LET i == CHOOSE i \in DOMAIN configs :
                    /\ configs[i].domain = domain
                    /\ \A j \in 1..(i - 1) : configs[j].domain # domain
         IN  [configs EXCEPT ![i][field] = value]
    ELSE configs

\* delete_one({"domain": domain}): the first match
DeleteOne(configs, domain) ==
    IF Registered(configs, domain)
    THEN LET i == CHOOSE i \in DOMAIN configs :
                    /\ configs[i].domain = domain
                    /\ \A j \in 1..(i - 1) : configs[j].domain # domain
         IN  SubSeq(configs, 1, i - 1) \o SubSeq(configs, i + 1, Len(configs))
    ELSE configs

\* check_verification_status, lines 139-145
check_verification_status(verified, domain) ==
    IF domain \in verified THEN "Pending" ELSE "NotStarted"

\* the answer of the handler, with the collection before and after it
CheckAnswer(method, domain, webhook, db_ok, code, message, verify_called, after) ==
    [method |-> method, domain |-> domain, webhook |-> webhook,
     db_ok |-> db_ok, statusCode |-> code, message |-> message,
     verify_called |-> verify_called,
     before |-> check_configs, after |-> after]

\* what the database and SES do during a request: nothing wrong; db is None;
\* a PyMongoError of insert_one, of update_one, of delete_one; an error of
\* check_verification_status, of verify_domain, of delete_identity
Outcomes ==
    {"ok", "db", "insert_one", "update_one", "delete_one",
     "check_verification_status", "verify_domain", "delete_identity"}

\* lambda_handler, POST, lines 543-698
CheckPost(domain, webhook) ==
    /\ Len(check_log) < MaxRequests
    /\ \E outcome \in Outcomes \ {"delete_one", "delete_identity"} :
          LET db_ok == outcome # "db"
              insert_ok == outcome # "insert_one"
              update_ok == outcome # "update_one"
              ses == outcome
              Answer(ok, code, message, verify_called, after) ==
                  CheckAnswer("POST", domain, webhook, ok, code, message,
                              verify_called, after)
              domain_config == [domain |-> domain, webhook |-> webhook,
                                verification_status |-> ""]
              inserted == InsertOne(check_configs, domain_config)
              status == check_verification_status(check_verified, domain)
              updated == IF update_ok
                         THEN UpdateOne(inserted.configs, domain,
                                        "verification_status", status)
                         ELSE inserted.configs
              Unchanged(answer) ==
                  /\ check_log' = Append(check_log, answer)
                  /\ UNCHANGED <<check_configs, check_verified>>
          IN  IF domain = <<>>
              THEN Unchanged(Answer(TRUE, 400, "Domain is required in the path",
                                 FALSE, check_configs))
              ELSE IF webhook = <<>>
              THEN Unchanged(Answer(TRUE, 400, "Webhook is required",
                                 FALSE, check_configs))
              ELSE IF ~is_valid_domain(domain)
              THEN Unchanged(Answer(TRUE, 400, "Invalid domain format",
                                 FALSE, check_configs))
              ELSE IF ~is_valid_webhook(webhook)
              THEN Unchanged(Answer(TRUE, 400, "Invalid webhook URL format",
                                 FALSE, check_configs))
              ELSE IF ~db_ok
              THEN Unchanged(Answer(FALSE, 500,
                                 "Database connection not available",
                                 FALSE, check_configs))
              ELSE IF ~insert_ok
              THEN Unchanged(Answer(FALSE, 500,
                                 "Error saving domain configuration",
                                 FALSE, check_configs))
              ELSE IF inserted.duplicate
              THEN Unchanged(Answer(TRUE, 200, "Domain already exists",
                                 FALSE, check_configs))
              ELSE IF ses = "check_verification_status"
              THEN /\ check_configs' = inserted.configs
                   /\ check_log' = Append(check_log,
                          Answer(TRUE, 500, "Error", FALSE, inserted.configs))
                   /\ UNCHANGED check_verified
              ELSE IF ses = "verify_domain"
              THEN /\ check_configs' = updated
                   /\ check_log' = Append(check_log,
                          Answer(TRUE, 500, "Error", FALSE, updated))
                   /\ UNCHANGED check_verified
              ELSE /\ check_configs' = updated
                   /\ check_verified' = check_verified \cup {domain}
                   /\ check_log' = Append(check_log,
                          Answer(TRUE, 200, "domain", TRUE, updated))
    /\ UNCHANGED <<parser_vars, deno_vars, cf_vars>>

\* lambda_handler, PUT, lines 455-541: the fields of the body are stored as
\* they come
CheckPut(domain, webhook) ==
    /\ Len(check_log) < MaxRequests
    /\ \E outcome \in {"ok", "db", "update_one"} :
          LET db_ok == outcome # "db"
              update_ok == outcome # "update_one"
              updated == UpdateOne(check_configs, domain, "webhook", webhook)
              Answer(ok, code, message, after) ==
                  CheckAnswer("PUT", domain, webhook, ok, code, message,
                              FALSE, after)
          IN  IF domain = <<>>
              THEN /\ check_log' = Append(check_log,
                          Answer(TRUE, 400, "Domain is required in the path",
                                 check_configs))
                   /\ UNCHANGED check_configs
              ELSE IF ~db_ok \/ ~update_ok
              THEN /\ check_log' = Append(check_log,
                          Answer(FALSE, 500, "Error", check_configs))
                   /\ UNCHANGED check_configs
              ELSE IF ~Registered(check_configs, domain)
              THEN /\ check_log' = Append(check_log,
                          Answer(TRUE, 404, "Domain not found", check_configs))
                   /\ UNCHANGED check_configs
              ELSE /\ check_configs' = updated
                   /\ check_log' = Append(check_log,
                          Answer(TRUE, 200, "domain", updated))
    /\ UNCHANGED check_verified
    /\ UNCHANGED <<parser_vars, deno_vars, cf_vars>>

\* lambda_handler, DELETE, lines 288-313, and delete_domain, lines 159-191: the
\* identity is deleted at SES (an error is passed over), then the document
CheckDelete(domain) ==
    /\ Len(check_log) < MaxRequests
    /\ \E outcome \in {"ok", "db", "delete_one", "delete_identity"} :
          LET db_ok == outcome # "db"
              delete_ok == outcome # "delete_one"
              ses_ok == outcome # "delete_identity"
              deleted == DeleteOne(check_configs, domain)
              Answer(ok, code, message, after) ==
                  CheckAnswer("DELETE", domain, <<>>, ok, code, message,
                              FALSE, after)
          IN  IF domain = <<>>
              THEN /\ check_log' = Append(check_log,
                          Answer(TRUE, 400, "Domain is required in the path",
                                 check_configs))
                   /\ UNCHANGED <<check_configs, check_verified>>
              ELSE /\ check_verified' = IF ses_ok
                                        THEN check_verified \ {domain}
                                        ELSE check_verified
                   /\ IF ~db_ok \/ ~delete_ok
                      THEN /\ check_log' = Append(check_log,
                                  Answer(FALSE, 500, "Error", check_configs))
                           /\ UNCHANGED check_configs
                      ELSE /\ check_configs' = deleted
                           /\ check_log' = Append(check_log,
                                  Answer(TRUE, 200, "deleted", deleted))
    /\ UNCHANGED <<parser_vars, deno_vars, cf_vars>>

\* lambda_handler, GET, lines 315-453: the document, and the status that SES
\* gives stored in it unless SES or the update fails
CheckGet(domain) ==
    /\ Len(check_log) < MaxRequests
    /\ \E outcome \in {"ok", "db", "check_verification_status"} :
          LET db_ok == outcome # "db"
              ses_ok == outcome # "check_verification_status"
              status == check_verification_status(check_verified, domain)
              updated == IF ses_ok
                         THEN UpdateOne(check_configs, domain,
                                        "verification_status", status)
                         ELSE check_configs
              Answer(ok, code, message, after) ==
                  CheckAnswer("GET", domain, <<>>, ok, code, message,
                              FALSE, after)
          IN  IF domain = <<>>
              THEN /\ check_log' = Append(check_log,
                          Answer(TRUE, 400, "Domain is required in the path",
                                 check_configs))
                   /\ UNCHANGED check_configs
              ELSE IF ~db_ok
              THEN /\ check_log' = Append(check_log,
                          Answer(FALSE, 500, "Error", check_configs))
                   /\ UNCHANGED check_configs
              ELSE IF ~Registered(check_configs, domain)
              THEN /\ check_log' = Append(check_log,
                          Answer(TRUE, 404, "Domain not found", check_configs))
                   /\ UNCHANGED check_configs
              ELSE /\ check_configs' = updated
                   /\ check_log' = Append(check_log,
                          Answer(TRUE, 200, "domain", updated))
    /\ UNCHANGED check_verified
    /\ UNCHANGED <<parser_vars, deno_vars, cf_vars>>

\* the collection is empty and has its unique index; SES holds no identity
CheckInit ==
    /\ check_configs = <<>>
    /\ check_verified = {}
    /\ check_log = <<>>
    /\ ParserIdle /\ DenoIdle /\ CfIdle

\* lambda_handler, lines 281-698
CheckNext ==
    \/ \E d \in CheckDomains, w \in CheckWebhooks : CheckPost(d, w)
    \/ \E d \in PathDomains, w \in PutWebhooks : CheckPut(d, w)
    \/ \E d \in PathDomains : CheckDelete(d)
    \/ \E d \in PathDomains : CheckGet(d)

CheckSpec == CheckInit /\ [][CheckNext]_vars

\* the answers to the POST requests for a domain that had a configuration
PostsForRegistered ==
    {k \in DOMAIN check_log :
        /\ check_log[k].method = "POST"
        /\ Registered(check_log[k].before, check_log[k].domain)}

OneConfigPerDomain ==
    \A i, j \in DOMAIN check_configs :
        check_configs[i].domain = check_configs[j].domain => i = j

(* C27 as stated: at most one configuration is stored per domain, and      *)
(* every POST for a domain that is registered is answered 200 'Domain      *)
(* already exists' and leaves the stored configurations unchanged.         *)
C27_PostRegisteredAnswers200 ==
    /\ OneConfigPerDomain
    /\ \A k \in PostsForRegistered :
          /\ check_log[k].statusCode = 200
          /\ check_log[k].message = "Domain already exists"
          /\ check_log[k].after = check_log[k].before

(* C27, amended: at most one configuration is stored per domain, and a     *)
(* POST for a domain that is registered never changes what is stored. It   *)
(* is answered 200 'Domain already exists' when its webhook is valid and   *)
(* the database takes the insert; otherwise 400 (webhook missing or        *)
(* invalid) or 500 (database unavailable or failing).                      *)
C27_RegistrationIdempotent ==
    /\ OneConfigPerDomain
    /\ \A k \in PostsForRegistered :
          /\ check_log[k].after = check_log[k].before
          /\ check_log[k].statusCode \in {200, 400, 500}
          /\ check_log[k].statusCode = 200
                => check_log[k].message = "Domain already exists"
          /\ check_log[k].statusCode = 400
                => ~is_valid_webhook(check_log[k].webhook)
          /\ check_log[k].statusCode = 500 => ~check_log[k].db_ok
          /\ (is_valid_webhook(check_log[k].webhook) /\ check_log[k].db_ok)
                => check_log[k].statusCode = 200

\* a valid POST for a registered domain, with another webhook, was answered
C27_Witness ==
    \E k \in PostsForRegistered :
        /\ check_log[k].statusCode = 200
        /\ check_log[k].message = "Domain already exists"
        /\ \E i \in DOMAIN check_configs :
              /\ check_configs[i].domain = check_log[k].domain
              /\ check_configs[i].webhook # check_log[k].webhook

(* C28 as stated: a POST to the check handler that is answered 400 or 500  *)
(* leaves domain_configs unchanged, and every stored domain was stored by  *)
(* a POST answered 200 during which verify_domain was called.              *)
C28_FailedPostStoresNothing ==
    /\ \A k \in DOMAIN check_log :
          (/\ check_log[k].method = "POST"
           /\ check_log[k].statusCode \in {400, 500})
          => check_log[k].after = check_log[k].before
    /\ \A i \in DOMAIN check_configs :
          \E k \in DOMAIN check_log :
              /\ check_log[k].method = "POST"
              /\ check_log[k].domain = check_configs[i].domain
              /\ check_log[k].statusCode = 200
              /\ check_log[k].verify_called

====
